---- MODULE Spec2Model ----
(***************************************************************************)
(* Model of the arbitrage-hub price store (src/src/lib/price-store.ts).    *)
(*                                                                         *)
(* Units.  Prices are the JavaScript numbers themselves (integral values). *)
(* A spread is kept in hundredths of a percentage point: the number the    *)
(* code holds is spread/100 (5.06 is 506 here), and so is a threshold      *)
(* (the default threshold 1 is 100 here).  Over the prices of this model   *)
(* the binary64 evaluation of calculateSpread and the integer formula of   *)
(* calculateSpread below agree; the binary64 subtraction of two spreads in *)
(* hasSignificantChange does not agree with the exact one everywhere, and  *)
(* is modelled by SpreadDeltaAtLeastTenth.                                 *)
(*                                                                         *)
(* A JavaScript Map is an insertion-ordered sequence of <<key, value>>     *)
(* pairs; an absent key of the four top-level maps is represented by the   *)
(* value that `get(k) || default` yields for it.  The timestamp fields     *)
(* (Date.now()) of samples and opportunities are left out.  Adapters pass  *)
(* samples whose exchange field is the key they store them under, and so   *)
(* do the operations here.                                                 *)
(*                                                                         *)
(* prices, callbacks, lastOpportunities and thresholds are the fields of   *)
(* PriceStore.  computed (the set the latest updatePrice of each ticker    *)
(* computed), last (the latest operation and its effects outside the maps) *)
(* and steps (the number of operations so far) are history variables.      *)
(*                                                                         *)
(* Spec runs the whole interface on two tickers for MaxOps operations;     *)
(* SpecFeed follows the feed of one ticker for MaxFeedOps operations.      *)
(***************************************************************************)
EXTENDS Integers, Sequences, FiniteSets, TLC

VARIABLES prices, callbacks, lastOpportunities, thresholds, computed, last, steps,
          adapter, activeConnections, dex, stopped, ev, ops, codec, fetcher

storeVars == <<prices, callbacks, lastOpportunities, thresholds, computed, last, steps>>

connVars == <<adapter, activeConnections, dex, stopped, ev, ops, codec, fetcher>>

vars == <<prices, callbacks, lastOpportunities, thresholds, computed, last, steps,
          adapter, activeConnections, dex, stopped, ev, ops, codec, fetcher>>

\* ---------------------------------------------------------------- inputs
Tickers == {"AAA", "BBB"}

\* A ticker whose name holds the separator of the connection keys; only the
\* connection manager is run with it.
HyphenTicker == "AAA-B"

TickerNames == Tickers \cup {HyphenTicker}

\* ticker.split('-')
Segments(ticker) == IF ticker = HyphenTicker THEN <<"AAA", "B">> ELSE <<ticker>>

Exchanges == {"binance", "mexc", "gate"}

\* The ticker whose feed is followed over long runs.
MainTicker == "AAA"

\* Prices an adapter may hand over; the negative one is an invalid sample.
ValidPrices == {5000, 5003, 5125, 5250, 5253, 5255}

InvalidPrices == {-5000}

Prices == ValidPrices \cup InvalidPrices

\* The prices each exchange quotes for a ticker in this model.
Feed(ticker, exchange) ==
  IF ticker = MainTicker
    THEN CASE exchange = "binance" -> {5000, 5003, -5000}
           [] exchange = "mexc" -> {5250, 5253, 5255}
           [] exchange = "gate" -> {5125, 5250}
    ELSE CASE exchange = "binance" -> {5000}
           [] exchange = "mexc" -> {5250}
           [] exchange = "gate" -> {}

\* Threshold arguments of setThreshold, in hundredths of a percent.
ThresholdArgs == {0, 500}

CbOk == "cbOk"

CbThrows == "cbThrows"

\* Subscriber callbacks; CbThrows throws whenever it is invoked.
Callbacks == {CbOk, CbThrows}

\* Bounds of the exploration: operations per run of Spec and of SpecFeed.
MaxOps == 4

MaxFeedOps == 5

MaxSubscribers == 2

\* ---------------------------------------------------------------- Map helpers
RECURSIVE MapIndex(_, _, _)
\* index of key k in map m at or after position i, 0 when absent
MapIndex(m, k, i) ==
  IF i > Len(m) THEN 0
  ELSE IF m[i][1] = k THEN i
  ELSE MapIndex(m, k, i + 1)

MapHas(m, k) == MapIndex(m, k, 1) # 0

MapSetAppends(m, k, val) == Append(m, <<k, val>>)

\* Map.prototype.set: an existing key keeps its position, a new key is appended
MapSet(m, k, val) ==
  IF MapHas(m, k)
    THEN [m EXCEPT ![MapIndex(m, k, 1)] = <<k, val>>]
    ELSE Append(m, <<k, val>>)

\* Array.from(map.values())
MapValues(m) == [i \in 1..Len(m) |-> m[i][2]]

MapKeys(m) == {m[i][1] : i \in 1..Len(m)}

MapGet(m, k) == m[MapIndex(m, k, 1)][2]

\* ---------------------------------------------------------------- arbitrage
Max(a, b) == IF a > b THEN a ELSE b

Min(a, b) == IF a < b THEN a ELSE b

\* Math.round(n / d), d # 0: the nearest integer, a half rounded towards +infinity
RoundDiv(n, d) ==
  IF d > 0 THEN (2 * n + d) \div (2 * d)
  ELSE (0 - (2 * n + d)) \div (0 - 2 * d)

\* What stands for the binary64 Infinity: greater than every spread and profit.
Infinity == 2 ^ 30

\* Math.round(((higher - lower) / lower) * 10000) / 100, in hundredths of a percent.
\* A lower price of 0 makes the quotient Infinity, or NaN when the higher price is
\* 0 too; NaN compares false with every threshold, as a value below all of them.
calculateSpread(price1, price2) ==
  LET higher == Max(price1, price2)
      lower == Min(price1, price2)
  IN IF lower = 0
       THEN IF higher = 0 THEN 0 - Infinity ELSE Infinity
       ELSE RoundDiv((higher - lower) * 10000, lower)

\* a PriceData value: the fields the store reads
Sample(exchange, price) == [exchange |-> exchange, price |-> price]

\* an ArbitrageOpportunity value
Opportunity(lower, higher, spread) ==
  [buyFrom |-> lower, sellTo |-> higher, spread |-> spread,
   profit |-> higher.price - lower.price, profitPercent |-> spread]

RECURSIVE MinPrice(_, _, _)
\* the loop of lines 50-54 for minPrice: the first sample of the lowest price
MinPrice(priceArray, i, cur) ==
  IF i > Len(priceArray) THEN cur
  ELSE MinPrice(priceArray, i + 1,
                IF priceArray[i].price < cur.price THEN priceArray[i] ELSE cur)

RECURSIVE MaxPrice(_, _, _)
\* the loop of lines 50-54 for maxPrice: the first sample of the highest price
MaxPrice(priceArray, i, cur) ==
  IF i > Len(priceArray) THEN cur
  ELSE MaxPrice(priceArray, i + 1,
                IF priceArray[i].price > cur.price THEN priceArray[i] ELSE cur)

\* opportunities.some(opp => buyFrom.exchange === lower.exchange && sellTo.exchange === higher.exchange)
PairExists(opportunities, lower, higher) ==
  \E n \in 1..Len(opportunities) :
    /\ opportunities[n].buyFrom.exchange = lower.exchange
    /\ opportunities[n].sellTo.exchange = higher.exchange

LowerAlwaysFirst(a, b) == a

\* lines 78-80: [lower, higher] of a pair of samples; the first is the lower one of
\* the destructuring
Lower(a, b) == IF a.price < b.price THEN a ELSE b

Higher(a, b) == IF a.price < b.price THEN b ELSE a

RECURSIVE AllPairs(_, _, _, _, _)
\* the nested loops of lines 73-100, from (i, j) on
AllPairs(priceArray, threshold, i, j, opportunities) ==
  IF i > Len(priceArray) THEN opportunities
  ELSE IF j > Len(priceArray)
    THEN AllPairs(priceArray, threshold, i + 1, i + 2, opportunities)
  ELSE
    LET spread == calculateSpread(priceArray[i].price, priceArray[j].price)
        lower == Lower(priceArray[i], priceArray[j])
        higher == Higher(priceArray[i], priceArray[j])
        pushed == IF spread >= threshold /\ ~PairExists(opportunities, lower, higher)
                    THEN Append(opportunities, Opportunity(lower, higher, spread))
                    ELSE opportunities
    IN AllPairs(priceArray, threshold, i, j + 1, pushed)

RECURSIVE InsertLowestFirst(_, _, _)
InsertLowestFirst(sorted, o, i) ==
  IF i > Len(sorted) THEN Append(sorted, o)
  ELSE IF sorted[i].profit > o.profit
    THEN SubSeq(sorted, 1, i - 1) \o <<o>> \o SubSeq(sorted, i, Len(sorted))
  ELSE InsertLowestFirst(sorted, o, i + 1)

RECURSIVE InsertByProfit(_, _, _)
\* o placed behind every element of sorted whose profit is not lower (a stable sort)
InsertByProfit(sorted, o, i) ==
  IF i > Len(sorted) THEN Append(sorted, o)
  ELSE IF sorted[i].profit < o.profit
    THEN SubSeq(sorted, 1, i - 1) \o <<o>> \o SubSeq(sorted, i, Len(sorted))
  ELSE InsertByProfit(sorted, o, i + 1)

SortLeavesOrder(opportunities, i, sorted) == opportunities

RECURSIVE SortByProfit(_, _, _)
\* opportunities.sort((a, b) => b.profit - a.profit): stable, highest profit first
SortByProfit(opportunities, i, sorted) ==
  IF i > Len(opportunities) THEN sorted
  ELSE SortByProfit(opportunities, i + 1, InsertByProfit(sorted, opportunities[i], 1))

\* this.thresholds.get(ticker) || 1: unset (<<>>) and the falsy 0 give the default
EffectiveThreshold(th) ==
  IF th = <<>> THEN 100
  ELSE IF th[1] = 0 THEN 100
  ELSE th[1]

\* calculateArbitrage with the ticker's threshold entry th and its Map of samples
calculateArbitrage(th, tickerPrices) ==
  LET priceArray == MapValues(tickerPrices) IN
  IF Len(priceArray) < 2 THEN <<>>
  ELSE
    LET threshold == EffectiveThreshold(th)
        minPrice == MinPrice(priceArray, 2, priceArray[1])
        maxPrice == MaxPrice(priceArray, 2, priceArray[1])
        spreadPercent == calculateSpread(minPrice.price, maxPrice.price)
        first == IF spreadPercent >= threshold
                   THEN <<Opportunity(minPrice, maxPrice, spreadPercent)>>
                   ELSE <<>>
        all == IF Len(first) > 0
                 THEN AllPairs(priceArray, threshold, 1, 2, first)
                 ELSE first
    IN SortByProfit(all, 1, <<>>)

\* ---------------------------------------------------------------- change suppression
Abs(x) == IF x < 0 THEN 0 - x ELSE x

\* Pairs <<a, a + 10>> of spreads that occur between the prices of this model and
\* whose binary64 difference (a + 10)/100 - a/100 is below the binary64 value 0.1
\* (5.04 - 4.94 and 5.1 - 5 both evaluate to 0.09999999999999964).
RoundsBelowTenth == {<<494, 504>>, <<500, 510>>}

\* Math.abs(newHighest - lastHighest) >= 0.1 as binary64 evaluates it
SpreadDeltaAtLeastTenth(newHighest, lastHighest) ==
  /\ Abs(newHighest - lastHighest) >= 10
  /\ <<Min(newHighest, lastHighest), Max(newHighest, lastHighest)>> \notin RoundsBelowTenth

\* opps[0]?.spread || 0
HighestSpread(opps) == IF Len(opps) = 0 THEN 0 ELSE opps[1].spread

hasSignificantChange(lastOpps, newOpportunities) ==
  IF Len(newOpportunities) # Len(lastOpps) THEN TRUE
  ELSE IF Len(newOpportunities) = 0 THEN FALSE
  ELSE SpreadDeltaAtLeastTenth(HighestSpread(newOpportunities), HighestSpread(lastOpps))

RECURSIVE notifyCallbacksNoCatch(_, _, _, _)
\* the forEach without the try/catch: the first throwing callback ends it
notifyCallbacksNoCatch(cbs, opportunities, i, calls) ==
  IF i > Len(cbs) THEN [calls |-> calls, escaped |-> FALSE]
  ELSE IF cbs[i] = CbThrows
    THEN [calls |-> Append(calls, [callback |-> cbs[i], opportunities |-> opportunities,
                                   threw |-> TRUE]),
          escaped |-> TRUE]
  ELSE notifyCallbacksNoCatch(cbs, opportunities, i + 1,
         Append(calls, [callback |-> cbs[i], opportunities |-> opportunities,
                        threw |-> FALSE]))

RECURSIVE notifyCallbacks(_, _, _, _)
\* callbacks.forEach with the try/catch of lines 135-139, from index i on: every
\* callback is invoked; calls lists the invocations, escaped says whether an
\* exception left notifyCallbacks
notifyCallbacks(cbs, opportunities, i, calls) ==
  IF i > Len(cbs) THEN [calls |-> calls, escaped |-> FALSE]
  ELSE notifyCallbacks(cbs, opportunities, i + 1,
         Append(calls, [callback |-> cbs[i], opportunities |-> opportunities,
                        threw |-> cbs[i] = CbThrows]))

\* ---------------------------------------------------------------- state
\* what the last operation was and what it did besides changing the maps: the set
\* updatePrice computed, whether it dispatched a notification, the callback
\* invocations in order, and whether an exception reached the caller
Record(op, ticker, exchange, price, arg, opportunities, significant, notified) ==
  [op |-> op, ticker |-> ticker, exchange |-> exchange, price |-> price, arg |-> arg,
   computed |-> opportunities, significant |-> significant,
   calls |-> notified.calls, escaped |-> notified.escaped]

NoCalls == [calls |-> <<>>, escaped |-> FALSE]

\* ---------------------------------------------------------------- connection state
\* MarketType of a websocket session
Markets == {"spot", "futures"}

\* The venue whose adapter is followed; ExchangeFactory keeps one instance per venue
\* name and hands the same instance to every ticker.
Venue == "mexc"

\* A venue name the factory does not know.
UnknownVenue == "kraken"

\* The chain of the on-chain pool that is polled.
Chain == "eth"

maxReconnectAttempts == 5

\* supportedMarkets of the adapter (super('mexc', ['spot', 'futures']))
supportedMarkets == {"spot", "futures"}

\* `${ticker}-${exchangeName}-${marketType}`
ConnectionKey(ticker, name, market) == <<ticker, name, market>>

\* onStatusUpdate while no callback is installed
NoKey == <<>>

NoSockets == [CONNECTING |-> 0, OPEN |-> 0, CLOSING |-> 0]

\* A BaseExchange after its constructor.  ws[m] is the readyState of the socket
\* the field ws / futuresWs references ("none" while undefined); replaced[m]
\* counts, by readyState, the sockets the field no longer references and that
\* still carry the handlers bound at their creation; reconnectTimers[m] counts
\* the pending timers of scheduleReconnect; connectTimers[m] the pending 5 s
\* timers of setupWebSocket, the one armed with the referenced socket (cur) and
\* those armed with earlier sockets (old), which fire first; subscribed[m] tells
\* whether the referenced socket was sent the subscription of subscribe();
\* status[m] is the status the adapter emitted last for the market; openedFor[m]
\* is the ticker setupWebSocket was called with when it created the referenced
\* socket (kept for the properties, read by no handler).
NewExchange ==
  [ticker |-> "",
   ws |-> [m \in Markets |-> "none"],
   replaced |-> [m \in Markets |-> NoSockets],
   reconnectAttempts |-> [m \in Markets |-> 0],
   isConnecting |-> {},
   reconnectTimers |-> [m \in Markets |-> 0],
   connectTimers |-> [m \in Markets |-> [cur |-> 0, old |-> 0]],
   onStatusUpdate |-> NoKey,
   subscribed |-> [m \in Markets |-> FALSE],
   decoding |-> [m \in Markets |-> <<>>],
   openedFor |-> [m \in Markets |-> ""],
   status |-> [m \in Markets |-> "initial"]]

\* The poll loops of DEXPriceFetcher.startMonitoring per ticker: intervals that
\* run, and getTokenPrice calls awaiting their RPC reads.
NoPolling == [loops |-> [t \in Tickers |-> 0], inflight |-> [t \in Tickers |-> 0]]

\* the latest connection event: the operation, its ticker and market, the markets
\* for which it created a socket, and whether it rejected
Event(op, ticker, market, started, threw) ==
  [op |-> op, ticker |-> ticker, market |-> market, started |-> started,
   threw |-> threw]

\* the codec's run: the message encoded, its bytes, and what decoding them gave
NoCodec ==
  [message |-> <<>>, binary |-> <<>>, decoded |-> <<>>, frame |-> <<>>,
   firstDeal |-> <<>>]

\* Chains of CHAIN_CONFIGS that are polled.
Chains == {"eth", "bsc"}

\* DEXPriceFetcher after construction: no wrapped-native price cached; with it the
\* clock Date.now() reads, the interval running per chain, the getTokenPrice
\* calls awaiting an RPC read in the order they were started, how many polls were
\* started, per chain the poll whose sample the store holds, and the latest event.
\* A cache entry is the code's {price, timestamp}; the chain whose pool was read is
\* recorded with it for the properties only and never read by resume.
NewFetcher ==
  [wethPriceCache |-> <<>>, now |-> 0, intervals |-> {}, polls |-> <<>>,
   started |-> 0, stored |-> [c \in Chains |-> 0],
   event |-> [op |-> "init", id |-> 0, chain |-> "", cache |-> "", failed |-> 0]]

ConnInit ==
  /\ codec = NoCodec
  /\ fetcher = NewFetcher
  /\ adapter = NewExchange
  /\ activeConnections = <<>>
  /\ dex = NoPolling
  /\ stopped = {}
  /\ ev = Event("init", "", "", {}, FALSE)
  /\ ops = 0

Init ==
  /\ ConnInit
  /\ prices = [t \in TickerNames |-> <<>>]
  /\ callbacks = [t \in TickerNames |-> <<>>]
  /\ lastOpportunities = [t \in TickerNames |-> <<>>]
  /\ thresholds = [t \in TickerNames |-> <<>>]
  /\ computed = [t \in TickerNames |-> <<>>]
  /\ last = Record("init", "", "", 0, "", <<>>, FALSE, NoCalls)
  /\ steps = 0

\* ---------------------------------------------------------------- operations
UpdatePrice(ticker, exchange, price) ==
  LET sample == Sample(exchange, price)
      tickerPrices == MapSet(prices[ticker], exchange, sample)
      opportunities == calculateArbitrage(thresholds[ticker], tickerPrices)
      significant == hasSignificantChange(lastOpportunities[ticker], opportunities)
      notified == IF significant
                    THEN notifyCallbacks(callbacks[ticker], opportunities, 1, <<>>)
                    ELSE NoCalls
  IN /\ prices' = [prices EXCEPT ![ticker] = tickerPrices]
     /\ lastOpportunities' = IF significant
                               THEN [lastOpportunities EXCEPT ![ticker] = opportunities]
                               ELSE lastOpportunities
     /\ computed' = [computed EXCEPT ![ticker] = opportunities]
     /\ last' = Record("updatePrice", ticker, exchange, price, "", opportunities,
                       significant, notified)
     /\ steps' = steps + 1
     /\ UNCHANGED <<callbacks, thresholds>>

SetThresholdRecomputes(ticker, threshold) ==
  /\ thresholds' = [thresholds EXCEPT ![ticker] = <<threshold>>]
  /\ lastOpportunities' =
       [lastOpportunities EXCEPT ![ticker] = calculateArbitrage(<<threshold>>, prices[ticker])]
  /\ last' = Record("setThreshold", ticker, "", 0, threshold, <<>>, FALSE, NoCalls)
  /\ steps' = steps + 1
  /\ UNCHANGED <<prices, callbacks, computed>>

\* this.thresholds.set(ticker, threshold)
ThresholdsSet(th, ticker, threshold) == [th EXCEPT ![ticker] = <<threshold>>]

SetThreshold(ticker, threshold) ==
  /\ thresholds' = ThresholdsSet(thresholds, ticker, threshold)
  /\ last' = Record("setThreshold", ticker, "", 0, threshold, <<>>, FALSE, NoCalls)
  /\ steps' = steps + 1
  /\ UNCHANGED <<prices, callbacks, lastOpportunities, computed>>

Subscribe(ticker, callback) ==
  /\ Len(callbacks[ticker]) < MaxSubscribers
  /\ callbacks' = [callbacks EXCEPT ![ticker] = Append(@, callback)]
  /\ last' = Record("subscribe", ticker, "", 0, callback, <<>>, FALSE, NoCalls)
  /\ steps' = steps + 1
  /\ UNCHANGED <<prices, lastOpportunities, thresholds, computed>>

RECURSIVE IndexOf(_, _, _)
\* Array.prototype.indexOf from position i on (1-based; 0 when absent)
IndexOf(arr, x, i) ==
  IF i > Len(arr) THEN 0
  ELSE IF arr[i] = x THEN i
  ELSE IndexOf(arr, x, i + 1)

\* arr.splice(index, 1)
Splice(arr, index) == SubSeq(arr, 1, index - 1) \o SubSeq(arr, index + 1, Len(arr))

Unsubscribe(ticker, callback) ==
  LET index == IndexOf(callbacks[ticker], callback, 1) IN
  /\ callbacks' = IF index > 0
                    THEN [callbacks EXCEPT ![ticker] = Splice(@, index)]
                    ELSE callbacks
  /\ last' = Record("unsubscribe", ticker, "", 0, callback, <<>>, FALSE, NoCalls)
  /\ steps' = steps + 1
  /\ UNCHANGED <<prices, lastOpportunities, thresholds, computed>>

\* what a clearTicker drops: how many samples and subscribers the ticker had
Dropped(ticker) ==
  [samples |-> Len(prices[ticker]), subscribers |-> Len(callbacks[ticker])]

ClearTickerKeepsCallbacks(ticker) ==
  /\ prices' = [prices EXCEPT ![ticker] = <<>>]
  /\ lastOpportunities' = [lastOpportunities EXCEPT ![ticker] = <<>>]
  /\ thresholds' = [thresholds EXCEPT ![ticker] = <<>>]
  /\ computed' = [computed EXCEPT ![ticker] = <<>>]
  /\ last' = Record("clearTicker", ticker, "", 0, Dropped(ticker), <<>>, FALSE, NoCalls)
  /\ steps' = steps + 1
  /\ UNCHANGED callbacks

ClearTicker(ticker) ==
  /\ prices' = [prices EXCEPT ![ticker] = <<>>]
  /\ callbacks' = [callbacks EXCEPT ![ticker] = <<>>]
  /\ lastOpportunities' = [lastOpportunities EXCEPT ![ticker] = <<>>]
  /\ thresholds' = [thresholds EXCEPT ![ticker] = <<>>]
  /\ computed' = [computed EXCEPT ![ticker] = <<>>]
  /\ last' = Record("clearTicker", ticker, "", 0, Dropped(ticker), <<>>, FALSE, NoCalls)
  /\ steps' = steps + 1

\* ---------------------------------------------------------------- reads
getPrices(ticker) == prices[ticker]

getOpportunities(ticker) == lastOpportunities[ticker]

getMonitoredTickers == {t \in Tickers : prices[t] # <<>>}

\* the whole interface of the store, both tickers, in any interleaving
Next ==
  \/ /\ steps < MaxOps
     /\ \E t \in Tickers, e \in Exchanges : \E p \in Feed(t, e) : UpdatePrice(t, e, p)
     /\ UNCHANGED connVars
  \/ /\ steps < MaxOps
     /\ \E t \in Tickers, x \in ThresholdArgs : SetThreshold(t, x)
     /\ UNCHANGED connVars
  \/ /\ steps < MaxOps
     /\ \E t \in Tickers, c \in Callbacks : Subscribe(t, c)
     /\ UNCHANGED connVars
  \/ /\ steps < MaxOps
     /\ \E t \in Tickers, c \in Callbacks : Unsubscribe(t, c)
     /\ UNCHANGED connVars
  \/ /\ steps < MaxOps
     /\ \E t \in Tickers : ClearTicker(t)
     /\ UNCHANGED connVars

Spec == Init /\ [][Next]_vars

\* the feed of one monitored ticker: a threshold, subscribers, and a longer run of
\* samples
NextFeed ==
  \/ /\ steps < MaxFeedOps
     /\ \E e \in Exchanges : \E p \in Feed(MainTicker, e) : UpdatePrice(MainTicker, e, p)
     /\ UNCHANGED connVars
  \/ /\ steps < MaxFeedOps
     /\ \E x \in ThresholdArgs : SetThreshold(MainTicker, x)
     /\ UNCHANGED connVars
  \/ /\ steps < MaxFeedOps
     /\ \E c \in Callbacks : Subscribe(MainTicker, c)
     /\ UNCHANGED connVars

SpecFeed == Init /\ [][NextFeed]_vars

\* ---------------------------------------------------------------- nested updates
\* A subscriber whose callback calls priceStore.updatePrice for its ticker with
\* the sample below: the highest price its exchange quotes.
CbWrites == "cbWrites"

WriteExchange == "mexc"

WritePrice ==
  CHOOSE p \in Feed(MainTicker, WriteExchange) :
    \A q \in Feed(MainTicker, WriteExchange) : q <= p

\* Operations per run of SpecNotify.
MaxNotifyOps == 5

\* The store of one ticker while an updatePrice runs: its Map of samples, its
\* stored opportunities, how many updatePrice calls have computed a set so far,
\* how many of them ran inside a callback, and the callback invocations in the
\* order they happened.
StoreOf(ticker) ==
  [prices |-> prices[ticker], lastOpportunities |-> lastOpportunities[ticker],
   computed |-> computed[ticker], round |-> 0, nested |-> 0, calls |-> <<>>]

\* one callback invocation: subscriber is the position in the callback list,
\* round the number of the updatePrice that computed the set handed over, depth
\* the number of callbacks on the stack below this one
Invocation(cbs, i, opportunities, round, depth) ==
  [callback |-> cbs[i], opportunities |-> opportunities, threw |-> cbs[i] = CbThrows,
   subscriber |-> i, round |-> round, depth |-> depth]

RECURSIVE updatePrice(_, _, _, _, _, _)
RECURSIVE notifyCallbacksNested(_, _, _, _, _, _, _)
\* updatePrice called with depth callbacks on the stack
updatePrice(st, th, cbs, exchange, price, depth) ==
  LET tickerPrices == MapSet(st.prices, exchange, Sample(exchange, price))
      opportunities == calculateArbitrage(th, tickerPrices)
      round == st.round + 1
      st1 == [st EXCEPT !.prices = tickerPrices, !.computed = opportunities,
                        !.round = round,
                        !.nested = IF depth > 0 THEN @ + 1 ELSE @]
  IN IF hasSignificantChange(st.lastOpportunities, opportunities)
       THEN notifyCallbacksNested([st1 EXCEPT !.lastOpportunities = opportunities],
                                  th, cbs, opportunities, round, 1, depth)
       ELSE st1

\* the forEach of notifyCallbacks; the callback CbWrites runs its updatePrice
\* before it returns
notifyCallbacksNested(st, th, cbs, opportunities, round, i, depth) ==
  IF i > Len(cbs) THEN st
  ELSE
    LET called == [st EXCEPT !.calls =
                     Append(@, Invocation(cbs, i, opportunities, round, depth))]
        returned == IF cbs[i] = CbWrites
                      THEN updatePrice(called, th, cbs, WriteExchange, WritePrice,
                                       depth + 1)
                      ELSE called
    IN notifyCallbacksNested(returned, th, cbs, opportunities, round, i + 1, depth)

\* updatePrice called by an adapter while the subscribers of the ticker may call
\* updatePrice themselves
UpdatePriceNotifying(ticker, exchange, price) ==
  LET st == updatePrice(StoreOf(ticker), thresholds[ticker], callbacks[ticker],
                        exchange, price, 0)
      opportunities == calculateArbitrage(thresholds[ticker],
                         MapSet(prices[ticker], exchange, Sample(exchange, price)))
      significant == hasSignificantChange(lastOpportunities[ticker], opportunities)
  IN /\ prices' = [prices EXCEPT ![ticker] = st.prices]
     /\ lastOpportunities' = [lastOpportunities EXCEPT ![ticker] = st.lastOpportunities]
     /\ computed' = [computed EXCEPT ![ticker] = st.computed]
     /\ last' = Record("updatePrice", ticker, exchange, price, st.nested, opportunities,
                       significant, [calls |-> st.calls, escaped |-> FALSE])
     /\ steps' = steps + 1
     /\ UNCHANGED <<callbacks, thresholds>>

NextNotify ==
  \/ /\ steps < MaxNotifyOps
     /\ \E c \in {CbOk, CbWrites} : Subscribe(MainTicker, c)
     /\ UNCHANGED connVars
  \/ /\ steps < MaxNotifyOps
     /\ \E e \in Exchanges : \E p \in Feed(MainTicker, e) :
          UpdatePriceNotifying(MainTicker, e, p)
     /\ UNCHANGED connVars

SpecNotify == Init /\ [][NextNotify]_vars

\* ---------------------------------------------------------------- adapter
\* The operators below are the methods of BaseExchange and ConnectionManager as
\* functions of the state s they act on: s.ex the adapter, s.conns the manager's
\* activeConnections, s.dex the poll loops, s.stopped the markets a disconnect
\* closed with no connect or reconnect since, s.started the markets for which the
\* running handler has created a socket, s.threw whether it has thrown.

\* marketType === 'spot' ? this.exchangeName : `${this.exchangeName}-futures`
ExchangeKey(m) == IF m = "spot" THEN "mexc" ELSE "mexc-futures"

\* `${exchangeName}${marketType === 'futures' ? '-futures' : ''}`
ManagerExchangeKey(name, m) ==
  CASE name = "mexc" /\ m = "futures" -> "mexc-futures"
    [] name = "kraken" /\ m = "futures" -> "kraken-futures"
    [] OTHER -> name

StatusRecord(exchangeKey, ticker, m, status) ==
  [exchange |-> exchangeKey, ticker |-> ticker, status |-> status, marketType |-> m]

\* ConnectionManager.updateConnectionStatus: the stored status of the key is
\* replaced when the key has a record
updateConnectionStatus(conns, key, status) ==
  IF MapHas(conns, key)
    THEN MapSet(conns, key, [MapGet(conns, key) EXCEPT !.status = status])
    ELSE conns

\* BaseExchange.updateConnectionStatus: the status goes to the one callback the
\* adapter holds
exchangeUpdateConnectionStatus(s, m, status) ==
  [s EXCEPT !.ex.status[m] = status,
            !.conns = IF s.ex.onStatusUpdate = NoKey
                        THEN @
                        ELSE updateConnectionStatus(@, s.ex.onStatusUpdate,
                               StatusRecord(ExchangeKey(m), s.ex.ticker, m, status))]

\* WebSocket.close(): a socket that is connecting or open starts closing
CloseSocket(readyState) ==
  IF readyState \in {"CONNECTING", "OPEN"} THEN "CLOSING" ELSE readyState

\* a socket the field stops referencing keeps its handlers until it is closed
Unreference(replaced, readyState) ==
  IF readyState \in {"CONNECTING", "OPEN", "CLOSING"}
    THEN [replaced EXCEPT ![readyState] = @ + 1]
    ELSE replaced

\* setupWebSocket (89-124): only an OPEN socket is closed before the field is
\* overwritten; the new socket gets the bound handlers and a 5 s timer
setupWebSocket(s, ticker, m) ==
  LET cur == s.ex.ws[m]
      old == IF cur = "OPEN" THEN CloseSocket(cur) ELSE cur
  IN [s EXCEPT !.ex.ticker = ticker,
               !.ex.isConnecting = @ \cup {m},
               !.ex.replaced[m] = Unreference(@, old),
               !.ex.ws[m] = "CONNECTING",
               !.ex.subscribed[m] = FALSE,
               !.ex.openedFor[m] = ticker,
               !.ex.connectTimers[m] = [cur |-> 1, old |-> @.old + @.cur],
               !.started = @ \cup {m}]

\* connect (56-87); connectSpot and connectFutures call setupWebSocket
connect(s, ticker, marketTypes) ==
  LET s0 == [s EXCEPT !.ex.ticker = ticker, !.stopped = @ \ marketTypes]
      validMarketTypes == marketTypes \cap supportedMarkets
      s1 == IF "spot" \in validMarketTypes THEN setupWebSocket(s0, ticker, "spot") ELSE s0
      s2 == IF "futures" \in validMarketTypes THEN setupWebSocket(s1, ticker, "futures") ELSE s1
  IN IF validMarketTypes = {} THEN [s0 EXCEPT !.threw = TRUE] ELSE s2

\* subscribe (part_006:155-181) with sendMessage (392-403): the subscription is
\* sent on the referenced socket, and only when that one is open
subscribe(s, m) ==
  IF s.ex.ws[m] = "OPEN" THEN [s EXCEPT !.ex.subscribed[m] = TRUE] ELSE s

handleConnectionSuccessKeepsCounter(s, m) ==
  subscribe(
    exchangeUpdateConnectionStatus([s EXCEPT !.ex.isConnecting = @ \ {m}], m, "connected"),
    m)

\* handleConnectionSuccess (164-175)
handleConnectionSuccess(s, m) ==
  subscribe(
    exchangeUpdateConnectionStatus(
      [s EXCEPT !.ex.isConnecting = @ \ {m}, !.ex.reconnectAttempts[m] = 0],
      m, "connected"),
    m)

\* scheduleReconnect (263-297)
scheduleReconnect(s, m) ==
  IF m \in s.ex.isConnecting
    THEN s
    ELSE exchangeUpdateConnectionStatus(
           [s EXCEPT !.ex.reconnectAttempts[m] = @ + 1, !.ex.reconnectTimers[m] = @ + 1],
           m, "connecting")

\* handleDisconnection (252-261)
handleDisconnection(s, wasClean, m) ==
  LET s1 == exchangeUpdateConnectionStatus(s, m, "disconnected") IN
  IF ~wasClean /\ s1.ex.reconnectAttempts[m] < maxReconnectAttempts
    THEN scheduleReconnect(s1, m)
    ELSE s1

\* handleConnectionTimeout (299-303)
handleConnectionTimeout(s, m) ==
  scheduleReconnect(exchangeUpdateConnectionStatus(s, m, "error"), m)

\* one market of the loop of reconnect (353-361)
ReconnectMarket(s, m) ==
  [s EXCEPT !.ex.ws[m] = CloseSocket(@), !.ex.subscribed[m] = FALSE,
            !.ex.reconnectAttempts[m] = 0, !.stopped = @ \ {m}]

\* reconnect (350-366)
reconnect(s, marketTypes) ==
  LET validMarketTypes == marketTypes \cap supportedMarkets
      s1 == IF "spot" \in validMarketTypes THEN ReconnectMarket(s, "spot") ELSE s
      s2 == IF "futures" \in validMarketTypes THEN ReconnectMarket(s1, "futures") ELSE s1
  IN IF s2.ex.ticker # "" THEN connect(s2, s2.ex.ticker, validMarketTypes) ELSE s2

\* one market of the loop of disconnect (371-381): a referenced socket is closed
\* with code 1000 and the field is cleared
DisconnectMarket(s, m) ==
  IF s.ex.ws[m] = "none"
    THEN [s EXCEPT !.stopped = @ \cup {m}]
    ELSE exchangeUpdateConnectionStatus(
           [s EXCEPT !.ex.replaced[m] = Unreference(@, CloseSocket(s.ex.ws[m])),
                     !.ex.ws[m] = "none",
                     !.ex.subscribed[m] = FALSE,
                     !.ex.connectTimers[m] = [cur |-> 0, old |-> @.old + @.cur],
                     !.stopped = @ \cup {m}],
           m, "disconnected")

\* disconnect (368-382)
disconnect(s, marketTypes) ==
  LET validMarketTypes == marketTypes \cap supportedMarkets
      s1 == IF "spot" \in validMarketTypes THEN DisconnectMarket(s, "spot") ELSE s
  IN IF "futures" \in validMarketTypes THEN DisconnectMarket(s1, "futures") ELSE s1

\* ---------------------------------------------------------------- connection manager
\* ExchangeFactory.createExchange: the cached instance of a known venue, null
\* for any other name
createExchange(name) == name = Venue

\* getExchangeFromConnections (135-143): a record of the ticker and venue that
\* holds an adapter
getExchangeFromConnections(conns, ticker, name) ==
  \E i \in 1..Len(conns) :
    /\ LET k == Segments(conns[i][1][1]) \o <<conns[i][1][2], conns[i][1][3]>>
           t == Segments(ticker) \o <<name>>
       IN Len(t) < Len(k) /\ SubSeq(k, 1, Len(t)) = t
    /\ conns[i][2].exchange

\* connectToExchange (82-133)
connectToExchange(s, ticker, name, m) ==
  LET connectionKey == ConnectionKey(ticker, name, m)
      failed(conns) ==
        updateConnectionStatus(conns, connectionKey,
          StatusRecord(ManagerExchangeKey(name, m), ticker, m, "error"))
  IN IF ~(getExchangeFromConnections(s.conns, ticker, name) \/ createExchange(name))
       THEN [s EXCEPT !.conns = failed(@)]
       ELSE LET s1 == [s EXCEPT
                         !.ex.onStatusUpdate = connectionKey,
                         !.conns = MapSet(@, connectionKey,
                                     [exchange |-> TRUE, dexMonitor |-> FALSE,
                                      marketType |-> m,
                                      status |-> StatusRecord(ManagerExchangeKey(name, m),
                                                              ticker, m, "connecting")]),
                         !.threw = FALSE]
                s2 == connect(s1, ticker, {m})
            IN IF s2.threw
                 THEN [s2 EXCEPT !.conns = failed(@), !.threw = s.threw]
                 ELSE [s2 EXCEPT !.threw = s.threw]

\* startDEXMonitoring (145-185) with DEXPriceFetcher.startMonitoring: a first
\* fetch is started at once and an interval is set; the record keeps the cleanup
\* of this interval
startDEXMonitoring(s, ticker) ==
  [s EXCEPT !.dex.loops[ticker] = @ + 1,
            !.dex.inflight[ticker] = @ + 1,
            !.conns = MapSet(@, ConnectionKey(ticker, Chain, "dex"),
                        [exchange |-> FALSE, dexMonitor |-> TRUE, marketType |-> "dex",
                         status |-> StatusRecord("eth-dex", ticker, "dex", "connected")])]

RECURSIVE ConnectAll(_, _, _, _)
\* the loops of startMonitoring over exchanges and markets (34-40)
ConnectAll(s, ticker, exchanges, i) ==
  IF i > Len(exchanges) THEN s
  ELSE ConnectAll(connectToExchange(s, ticker, exchanges[i][1], exchanges[i][2]),
                  ticker, exchanges, i + 1)

\* startMonitoring (21-59) after priceStore.setThreshold
startMonitoring(s, config) ==
  LET s1 == ConnectAll(s, config.ticker, config.exchanges, 1) IN
  IF config.dex THEN startDEXMonitoring(s1, config.ticker) ELSE s1

\* key.startsWith(`${ticker}-`) for the key `${ticker}-${name}-${market}`
KeyOfTicker(key, ticker) ==
  LET k == Segments(key[1]) \o <<key[2], key[3]>>
      t == Segments(ticker)
  IN Len(t) < Len(k) /\ SubSeq(k, 1, Len(t)) = t

\* Map.prototype.delete
MapDelete(m, k) ==
  IF MapHas(m, k)
    THEN SubSeq(m, 1, MapIndex(m, k, 1) - 1) \o SubSeq(m, MapIndex(m, k, 1) + 1, Len(m))
    ELSE m

\* the body of the loop of stopMonitoring (193-225) for one entry of the snapshot
StopConnection(s, ticker, entry) ==
  LET connectionKey == entry[1]
      connection == entry[2]
      otherConnections ==
        {j \in 1..Len(s.conns) :
           /\ s.conns[j][1] # connectionKey
           /\ KeyOfTicker(s.conns[j][1], ticker)
           /\ s.conns[j][2].exchange}
      s1 == IF connection.exchange
              THEN IF otherConnections = {}
                     THEN disconnect(s, Markets)
                     ELSE disconnect(s, {connection.marketType})
              ELSE s
      s2 == IF connection.dexMonitor /\ s1.dex.loops[connectionKey[1]] > 0
              THEN [s1 EXCEPT !.dex.loops[connectionKey[1]] = @ - 1]
              ELSE s1
  IN [s2 EXCEPT !.conns = MapDelete(@, connectionKey)]

RECURSIVE StopAll(_, _, _, _)
StopAll(s, ticker, connectionsToStop, i) ==
  IF i > Len(connectionsToStop) THEN s
  ELSE StopAll(StopConnection(s, ticker, connectionsToStop[i]), ticker,
               connectionsToStop, i + 1)

\* stopMonitoring (187-231) before priceStore.clearTicker
stopMonitoring(s, ticker) ==
  StopAll(s, ticker, SelectSeq(s.conns, LAMBDA entry : KeyOfTicker(entry[1], ticker)), 1)

\* reconnectExchange (246-261)
reconnectExchange(s, ticker, name, m) ==
  LET connectionKey == ConnectionKey(ticker, name, m) IN
  IF MapHas(s.conns, connectionKey) /\ MapGet(s.conns, connectionKey).exchange
    THEN reconnect(s, {m})
    ELSE connectToExchange(s, ticker, name, m)

RECURSIVE MonitoredTickers(_, _, _)
\* ConnectionManager.getMonitoredTickers (291-300): key.split('-')[0] of every
\* key, each once, in the order of the records
MonitoredTickers(conns, i, tickers) ==
  IF i > Len(conns) THEN tickers
  ELSE LET ticker == Segments(conns[i][1][1])[1] IN
       MonitoredTickers(conns, i + 1,
         IF \E j \in 1..Len(tickers) : tickers[j] = ticker
           THEN tickers ELSE Append(tickers, ticker))

RECURSIVE StopTickers(_, _, _)
\* the loop of emergencyDisconnectAll (339-345), the manager's part
StopTickers(s, tickers, i) ==
  IF i > Len(tickers) THEN s
  ELSE StopTickers(stopMonitoring(s, tickers[i]), tickers, i + 1)

\* emergencyDisconnectAll (334-348) without the calls of priceStore.clearTicker
emergencyDisconnectAll(s) ==
  StopTickers(s, MonitoredTickers(s.conns, 1, <<>>), 1)

\* getConnectionStatus (233-243)
getConnectionStatus(ticker) ==
  LET connections == SelectSeq(activeConnections, LAMBDA entry : KeyOfTicker(entry[1], ticker))
  IN [i \in 1..Len(connections) |-> connections[i][2].status]

\* ---------------------------------------------------------------- connection events
\* Bounds of the exploration: sockets alive and timers pending per market, poll
\* loops and polls in flight per ticker, operations per run of SpecManager.
MaxSockets == 5

MaxTimers == 5

MaxLoops == 2

MaxInflight == 2

MaxMgrOps == 4

\* Blob frames awaiting their bytes per market, and operations per run of
\* SpecFrames.
MaxDecoding == 2

MaxFrameOps == 7

\* The price a frame of the venue and a poll of the pool carry.
FramePrice == 5250

PollPrice == 5000

LiveSockets(ex, m) ==
  (IF ex.ws[m] \in {"CONNECTING", "OPEN", "CLOSING"} THEN 1 ELSE 0)
    + ex.replaced[m]["CONNECTING"] + ex.replaced[m]["OPEN"] + ex.replaced[m]["CLOSING"]

Bounded(s) ==
  /\ \A m \in Markets :
       /\ LiveSockets(s.ex, m) <= MaxSockets
       /\ s.ex.reconnectTimers[m] <= MaxTimers
       /\ s.ex.connectTimers[m].old + s.ex.connectTimers[m].cur <= MaxTimers
       /\ Len(s.ex.decoding[m]) <= MaxDecoding
  /\ \A t \in Tickers :
       /\ s.dex.loops[t] <= MaxLoops
       /\ s.dex.inflight[t] <= MaxInflight

\* the state a handler starts from
State ==
  [ex |-> adapter, conns |-> activeConnections, dex |-> dex, stopped |-> stopped,
   started |-> {}, threw |-> FALSE]

\* the state a handler leaves
Apply(s, op, ticker, market) ==
  /\ Bounded(s)
  /\ adapter' = s.ex
  /\ activeConnections' = s.conns
  /\ dex' = s.dex
  /\ stopped' = s.stopped
  /\ ev' = Event(op, ticker, market, s.started, s.threw)
  /\ UNCHANGED <<codec, fetcher>>

\* monitoring specs: venues with markets, an optional pool
Config(ticker, exchanges, dexContracts) ==
  [ticker |-> ticker, exchanges |-> exchanges, dex |-> dexContracts,
   thresholdPercent |-> 100]

Configs ==
  {Config(MainTicker, <<<<Venue, "spot">>>>, FALSE),
   Config(MainTicker, <<<<Venue, "spot">>, <<Venue, "futures">>>>, FALSE),
   Config(MainTicker, <<<<UnknownVenue, "spot">>, <<Venue, "spot">>>>, FALSE),
   Config(MainTicker, <<>>, TRUE),
   Config("BBB", <<<<Venue, "spot">>>>, FALSE),
   Config(HyphenTicker, <<<<Venue, "spot">>>>, FALSE)}

StartMonitoring(config) ==
  /\ SetThreshold(config.ticker, config.thresholdPercent)
  /\ Apply(startMonitoring(State, config), "startMonitoring", config.ticker, "")

\* What checkTokenListing of the venue may answer for a ticker.
Listings ==
  {[spot |-> FALSE, futures |-> FALSE], [spot |-> TRUE, futures |-> FALSE],
   [spot |-> TRUE, futures |-> TRUE]}

\* TokenDiscoveryService.getRecommendedConfig: the venue with the markets that
\* list the ticker; no pool (checkDEXAvailability answers false for every chain)
getRecommendedConfig(ticker, thresholdPercent, listing) ==
  LET markets == (IF listing.spot THEN <<<<Venue, "spot">>>> ELSE <<>>)
                   \o (IF listing.futures THEN <<<<Venue, "futures">>>> ELSE <<>>)
  IN [ticker |-> ticker, exchanges |-> markets, dex |-> FALSE,
      thresholdPercent |-> thresholdPercent]

StartMonitoringAutoSetsThreshold(ticker, thresholdPercent, listing) ==
  LET config == getRecommendedConfig(ticker, thresholdPercent, listing) IN
  IF config.exchanges = <<>>
    THEN /\ SetThreshold(ticker, thresholdPercent)
         /\ Apply([State EXCEPT !.threw = TRUE], "startMonitoringAuto", ticker, "")
    ELSE StartMonitoring(config)

\* startMonitoringAuto (61-80)
StartMonitoringAuto(ticker, thresholdPercent, listing) ==
  LET config == getRecommendedConfig(ticker, thresholdPercent, listing) IN
  IF config.exchanges = <<>>
    THEN /\ Apply([State EXCEPT !.threw = TRUE], "startMonitoringAuto", ticker, "")
         /\ UNCHANGED storeVars
    ELSE StartMonitoring(config)

StopMonitoring(ticker) ==
  /\ ClearTicker(ticker)
  /\ Apply(stopMonitoring(State, ticker), "stopMonitoring", ticker, "")

\* priceStore.clearTicker for each ticker of a list, one after the other
ClearTickers(tickers) ==
  LET cleared == {tickers[i] : i \in 1..Len(tickers)}
      drop(map) == [t \in TickerNames |-> IF t \in cleared THEN <<>> ELSE map[t]]
  IN IF tickers = <<>>
       THEN UNCHANGED storeVars
       ELSE /\ prices' = drop(prices)
            /\ callbacks' = drop(callbacks)
            /\ lastOpportunities' = drop(lastOpportunities)
            /\ thresholds' = drop(thresholds)
            /\ computed' = drop(computed)
            /\ last' = Record("clearTicker", tickers[Len(tickers)], "", 0,
                              Dropped(tickers[Len(tickers)]), <<>>, FALSE, NoCalls)
            /\ steps' = steps + Len(tickers)

EmergencyDisconnectAll ==
  /\ ClearTickers(MonitoredTickers(activeConnections, 1, <<>>))
  /\ Apply(emergencyDisconnectAll(State), "emergencyDisconnectAll", "", "")

ReconnectExchange(ticker, name, m) ==
  /\ Apply(reconnectExchange(State, ticker, name, m),
           IF MapHas(activeConnections, ConnectionKey(ticker, name, m))
             THEN "reconnectExchange" ELSE "reconnectExchangeNew",
           ticker, m)
  /\ UNCHANGED storeVars

\* onopen of the referenced socket, or of one that was replaced while connecting
SocketOpen(m, referenced) ==
  /\ IF referenced THEN adapter.ws[m] = "CONNECTING"
                   ELSE adapter.replaced[m]["CONNECTING"] > 0
  /\ Apply(handleConnectionSuccess(
             IF referenced
               THEN [State EXCEPT !.ex.ws[m] = "OPEN"]
               ELSE [State EXCEPT !.ex.replaced[m]["CONNECTING"] = @ - 1,
                                  !.ex.replaced[m]["OPEN"] = @ + 1],
             m),
           IF referenced THEN "open" ELSE "openReplaced", adapter.ticker, m)
  /\ UNCHANGED storeVars

\* onclose of the referenced socket
SocketClose(m, wasClean) ==
  /\ adapter.ws[m] \in {"CONNECTING", "OPEN", "CLOSING"}
  /\ adapter.ws[m] = "CONNECTING" => ~wasClean
  /\ Apply(handleDisconnection([State EXCEPT !.ex.ws[m] = "CLOSED",
                                             !.ex.subscribed[m] = FALSE],
                               wasClean, m),
           IF wasClean THEN "closeClean" ELSE "close", adapter.ticker, m)
  /\ UNCHANGED storeVars

\* onclose of a socket the field no longer references
ReplacedSocketClose(m, readyState, wasClean) ==
  /\ adapter.replaced[m][readyState] > 0
  /\ readyState = "CONNECTING" => ~wasClean
  /\ Apply(handleDisconnection([State EXCEPT !.ex.replaced[m][readyState] = @ - 1],
                               wasClean, m),
           IF wasClean THEN "closeCleanReplaced" ELSE "closeReplaced", adapter.ticker, m)
  /\ UNCHANGED storeVars

\* onerror of any socket that is alive
SocketError(m) ==
  /\ LiveSockets(adapter, m) > 0
  /\ Apply(exchangeUpdateConnectionStatus(State, m, "error"), "error", adapter.ticker, m)
  /\ UNCHANGED storeVars

\* the 5 s timer of setupWebSocket (114-120); timers fire in the order they were
\* armed, and each looks at the socket the field references when it fires
ConnectTimeout(m) ==
  LET timers == adapter.connectTimers[m]
      left == IF timers.old > 0 THEN [timers EXCEPT !.old = @ - 1]
                                ELSE [timers EXCEPT !.cur = 0]
      s == [State EXCEPT !.ex.connectTimers[m] = left]
  IN /\ timers.old + timers.cur > 0
     /\ Apply(IF adapter.ws[m] = "CONNECTING"
                THEN handleConnectionTimeout([s EXCEPT !.ex.ws[m] = CloseSocket(@)], m)
                ELSE s,
              IF timers.old > 0 THEN "timeoutEarlier" ELSE "timeout", adapter.ticker, m)
     /\ UNCHANGED storeVars

\* the timer of scheduleReconnect (284-296)
ReconnectTimer(m) ==
  LET s == [State EXCEPT !.ex.reconnectTimers[m] = @ - 1] IN
  /\ adapter.reconnectTimers[m] > 0
  /\ Apply(IF adapter.ticker # "" THEN setupWebSocket(s, adapter.ticker, m) ELSE s,
           "reconnectTimer", adapter.ticker, m)
  /\ UNCHANGED storeVars

\* onmessage of a socket that was sent a subscription: handleMessage (177-250)
\* hands the parsed sample to the store under the ticker the adapter holds now.
\* A socket the field no longer references was closed if it was open, and was
\* never subscribed otherwise, so it delivers no sample.
\* The frame is a string or a byte buffer: nothing is awaited before the store
\* is called.
FrameOf(m, price) ==
  /\ adapter.ws[m] = "OPEN"
  /\ adapter.subscribed[m]
  /\ adapter.ticker \in TickerNames
  /\ UpdatePrice(adapter.ticker, ExchangeKey(m), price)
  /\ Apply(State, "frame", adapter.ticker, m)

Frame(m) == FrameOf(m, FramePrice)

\* onmessage with a Blob: handleMessage awaits raw.arrayBuffer() (182-184) and
\* returns to the event loop
BlobFrame(m, price) ==
  /\ adapter.ws[m] = "OPEN"
  /\ adapter.subscribed[m]
  /\ Apply([State EXCEPT !.ex.decoding[m] = Append(@, price)], "blobFrame",
           adapter.ticker, m)
  /\ UNCHANGED storeVars

\* the bytes of the oldest awaited Blob are there: handleMessage goes on from
\* line 186 and hands the sample to the store
BlobDecoded(m) ==
  /\ adapter.decoding[m] # <<>>
  /\ adapter.ticker \in TickerNames
  /\ UpdatePrice(adapter.ticker, ExchangeKey(m), Head(adapter.decoding[m]))
  /\ Apply([State EXCEPT !.ex.decoding[m] = Tail(@)], "blobDecoded", adapter.ticker, m)

\* a tick of a running interval starts a poll
PollTick(ticker) ==
  /\ dex.loops[ticker] > 0
  /\ Apply([State EXCEPT !.dex.inflight[ticker] = @ + 1], "pollTick", ticker, "dex")
  /\ UNCHANGED storeVars

\* getTokenPrice (98-118) after its RPC reads have returned a price
PollDone(ticker) ==
  /\ dex.inflight[ticker] > 0
  /\ UpdatePrice(ticker, "eth-dex", PollPrice)
  /\ Apply([State EXCEPT !.dex.inflight[ticker] = @ - 1], "pollDone", ticker, "dex")

\* getTokenPrice after an RPC read has failed
PollFailed(ticker) ==
  /\ dex.inflight[ticker] > 0
  /\ Apply([State EXCEPT !.dex.inflight[ticker] = @ - 1], "pollFailed", ticker, "dex")
  /\ UNCHANGED storeVars

\* the manager with one venue adapter and one pool, two tickers, and the store
NextManager ==
  \/ /\ ops < MaxMgrOps /\ ops' = ops + 1
     /\ \E config \in Configs : StartMonitoring(config)
  \/ /\ ops < MaxMgrOps /\ ops' = ops + 1
     /\ \E t \in Tickers, listing \in Listings : StartMonitoringAuto(t, 100, listing)
  \/ /\ ops < MaxMgrOps /\ ops' = ops + 1
     /\ \E t \in Tickers : StopMonitoring(t)
  \/ /\ ops < MaxMgrOps /\ ops' = ops + 1
     /\ EmergencyDisconnectAll
  \/ /\ ops < MaxMgrOps /\ ops' = ops + 1
     /\ \E t \in Tickers, m \in Markets : ReconnectExchange(t, Venue, m)
  \/ /\ ops < MaxMgrOps /\ ops' = ops + 1
     /\ \E m \in Markets, referenced \in BOOLEAN : SocketOpen(m, referenced)
  \/ /\ ops < MaxMgrOps /\ ops' = ops + 1
     /\ \E m \in Markets, wasClean \in BOOLEAN : SocketClose(m, wasClean)
  \/ /\ ops < MaxMgrOps /\ ops' = ops + 1
     /\ \E m \in Markets, r \in {"CONNECTING", "OPEN", "CLOSING"}, wasClean \in BOOLEAN :
          ReplacedSocketClose(m, r, wasClean)
  \/ /\ ops < MaxMgrOps /\ ops' = ops + 1
     /\ \E m \in Markets : SocketError(m)
  \/ /\ ops < MaxMgrOps /\ ops' = ops + 1
     /\ \E m \in Markets : ConnectTimeout(m)
  \/ /\ ops < MaxMgrOps /\ ops' = ops + 1
     /\ \E m \in Markets : ReconnectTimer(m)
  \/ /\ ops < MaxMgrOps /\ ops' = ops + 1
     /\ \E m \in Markets : Frame(m)
  \/ /\ ops < MaxMgrOps /\ ops' = ops + 1
     /\ \E t \in Tickers : PollTick(t)
  \/ /\ ops < MaxMgrOps /\ ops' = ops + 1
     /\ \E t \in Tickers : PollDone(t)
  \/ /\ ops < MaxMgrOps /\ ops' = ops + 1
     /\ \E t \in Tickers : PollFailed(t)

SpecManager == Init /\ [][NextManager]_vars

\* ---------------------------------------------------------------- one session
\* connect called on the adapter
Connect(ticker, marketTypes) ==
  /\ Apply(connect(State, ticker, marketTypes), "connect", ticker, "")
  /\ UNCHANGED storeVars

\* reconnect called on the adapter
Reconnect(m) ==
  /\ Apply(reconnect(State, {m}), "reconnect", adapter.ticker, m)
  /\ UNCHANGED storeVars

\* disconnect called on the adapter
Disconnect(m) ==
  /\ Apply(disconnect(State, {m}), "disconnect", adapter.ticker, m)
  /\ UNCHANGED storeVars

\* The market whose session is followed over runs of any length.
SessionMarket == "spot"

\* one (venue, market) session of an adapter without a manager: the three calls,
\* the socket events and the timers, in any interleaving
NextSession ==
  \/ Connect(MainTicker, {SessionMarket}) /\ UNCHANGED ops
  \/ Reconnect(SessionMarket) /\ UNCHANGED ops
  \/ Disconnect(SessionMarket) /\ UNCHANGED ops
  \/ (\E referenced \in BOOLEAN : SocketOpen(SessionMarket, referenced)) /\ UNCHANGED ops
  \/ (\E wasClean \in BOOLEAN : SocketClose(SessionMarket, wasClean)) /\ UNCHANGED ops
  \/ (\E r \in {"CONNECTING", "OPEN", "CLOSING"}, wasClean \in BOOLEAN :
        ReplacedSocketClose(SessionMarket, r, wasClean)) /\ UNCHANGED ops
  \/ SocketError(SessionMarket) /\ UNCHANGED ops
  \/ ConnectTimeout(SessionMarket) /\ UNCHANGED ops
  \/ ReconnectTimer(SessionMarket) /\ UNCHANGED ops

SpecSession == Init /\ [][NextSession]_vars

\* Operations per run of SpecMarkets.
MaxMarketOps == 7

\* both markets of one adapter: connect calls, opens and unclean closes of the
\* referenced sockets, and the reconnect timers
NextMarkets ==
  \/ /\ ops < MaxMarketOps /\ ops' = ops + 1
     /\ \E marketTypes \in {{"spot"}, {"futures"}, Markets} : Connect(MainTicker, marketTypes)
  \/ /\ ops < MaxMarketOps /\ ops' = ops + 1
     /\ \E m \in Markets : SocketOpen(m, TRUE)
  \/ /\ ops < MaxMarketOps /\ ops' = ops + 1
     /\ \E m \in Markets : SocketClose(m, FALSE)
  \/ /\ ops < MaxMarketOps /\ ops' = ops + 1
     /\ \E m \in Markets : ReconnectTimer(m)

SpecMarkets == Init /\ [][NextMarkets]_vars

\* The prices the frames of the followed session carry.
FramePrices == {5250, 5253}

\* the frames of one session: the socket is opened once and then delivers text
\* and Blob frames in any mix
NextFrames ==
  \/ /\ ops < MaxFrameOps /\ ops' = ops + 1
     /\ adapter.ws[SessionMarket] = "none"
     /\ Connect(MainTicker, {SessionMarket})
  \/ /\ ops < MaxFrameOps /\ ops' = ops + 1
     /\ SocketOpen(SessionMarket, TRUE)
  \/ /\ ops < MaxFrameOps /\ ops' = ops + 1
     /\ \E p \in FramePrices : FrameOf(SessionMarket, p)
  \/ /\ ops < MaxFrameOps /\ ops' = ops + 1
     /\ \E p \in FramePrices : BlobFrame(SessionMarket, p)
  \/ /\ ops < MaxFrameOps /\ ops' = ops + 1
     /\ BlobDecoded(SessionMarket)

SpecFrames == Init /\ [][NextFrames]_vars

\* ---------------------------------------------------------------- binary codec
\* Bytes are numbers 0..255, a buffer is a sequence of bytes, a 32-bit word is the
\* sequence of its 32 bits from the lowest, and a Long is a record of two words.
\* A reader is [bytes, offset, limit, failed]: offset counts the bytes consumed.

Bits(n, width) == [i \in 1..width |-> (n \div (2 ^ (i - 1))) % 2]

\* the word with the given upper and lower 16 bits
Word(upper, lower) == Bits(lower, 16) \o Bits(upper, 16)

Long(w3, w2, w1, w0) == [low |-> Word(w1, w0), high |-> Word(w3, w2), unsigned |-> FALSE]

RECURSIVE Num(_)
\* the number a short sequence of bits stands for
Num(bits) == IF bits = <<>> THEN 0 ELSE bits[1] + 2 * Num(Tail(bits))

\* part < 1 << k
Below(part, k) == \A i \in (k + 1)..Len(part) : part[i] = 0

\* the size writeVarint64 computes (819-838)
Varint64Size(part0, part1, part2) ==
  IF Below(part2, 0)
    THEN IF Below(part1, 0)
           THEN IF Below(part0, 14)
                  THEN (IF Below(part0, 7) THEN 1 ELSE 2)
                  ELSE (IF Below(part0, 21) THEN 3 ELSE 4)
           ELSE IF Below(part1, 14)
                  THEN (IF Below(part1, 7) THEN 5 ELSE 6)
                  ELSE (IF Below(part1, 21) THEN 7 ELSE 8)
    ELSE IF Below(part2, 7) THEN 9 ELSE 10

\* writeVarint64 (813-865): the bytes it stores, each cut to 8 bits by the
\* Uint8Array
writeVarint64(value) ==
  LET part0 == value.low
      part1 == SubSeq(value.low, 29, 32) \o SubSeq(value.high, 1, 28)
      part2 == SubSeq(value.high, 25, 32)
      size == Varint64Size(part0, part1, part2)
      group(k) == CASE k <= 4 -> SubSeq(part0, 7 * (k - 1) + 1, 7 * k)
                    [] k <= 8 -> SubSeq(part1, 7 * (k - 5) + 1, 7 * (k - 4))
                    [] k = 9 -> SubSeq(part2, 1, 7)
                    [] OTHER -> <<part2[8]>>
  IN [k \in 1..size |-> Num(group(k)) + (IF k # size THEN 128 ELSE 0)]

\* readByte (645-647) with advance (493-500)
readByte(bb) ==
  IF bb.failed \/ bb.offset + 1 > bb.limit
    THEN [byte |-> 0, bb |-> [bb EXCEPT !.failed = TRUE]]
    ELSE [byte |-> bb.bytes[bb.offset + 1], bb |-> [bb EXCEPT !.offset = @ + 1]]

RECURSIVE VarintBytes(_, _, _)
\* the bytes a varint reader consumes: up to the first byte without the
\* continuation bit, at most most bytes
VarintBytes(bb, read, most) ==
  LET r == readByte(bb) IN
  IF r.bb.failed THEN [read |-> read, bb |-> r.bb]
  ELSE IF r.byte < 128 \/ Len(read) + 1 = most
    THEN [read |-> Append(read, r.byte), bb |-> r.bb]
    ELSE VarintBytes(r.bb, Append(read, r.byte), most)

\* readVarint64 (761-811)
readVarint64(bb, unsigned) ==
  LET r == VarintBytes(bb, <<>>, 10)
      group(k) == IF k <= Len(r.read) THEN Bits(r.read[k] % 128, 7) ELSE Bits(0, 7)
      part0 == group(1) \o group(2) \o group(3) \o group(4) \o Bits(0, 4)
      part1 == group(5) \o group(6) \o group(7) \o group(8) \o Bits(0, 4)
      part2 == group(9) \o group(10) \o Bits(0, 18)
      \* part0 | (part1 << 28)
      low == [i \in 1..32 |-> IF i <= 28 THEN part0[i] ELSE part1[i - 28]]
      \* (part1 >>> 4) | (part2 << 24)
      high == [i \in 1..32 |-> IF i <= 24 THEN part1[i + 4] ELSE part2[i - 24]]
  IN [value |-> [low |-> low, high |-> high, unsigned |-> unsigned], bb |-> r.bb]

RECURSIVE writeVarint32(_)
\* writeVarint32 (752-759) of a value that is not negative
writeVarint32(value) ==
  IF value >= 128 THEN <<(value % 128) + 128>> \o writeVarint32(value \div 128)
                  ELSE <<value>>

RECURSIVE Varint32Value(_, _)
\* value |= (b & 0x7f) << c for the bytes read, while c < 32
Varint32Value(read, k) ==
  IF k > Len(read) \/ k > 4 THEN 0
  ELSE (read[k] % 128) * (2 ^ (7 * (k - 1))) + Varint32Value(read, k + 1)

\* readVarint32 (740-750), for values below 2^28
readVarint32(bb) ==
  LET r == VarintBytes(bb, <<>>, bb.limit + 1) IN [value |-> Varint32Value(r.read, 1), bb |-> r.bb]

wrapByteBuffer(bytes) == [bytes |-> bytes, offset |-> 0, limit |-> Len(bytes), failed |-> FALSE]

RECURSIVE Utf8(_, _)
\* the second loop of writeString (609-631): the bytes of text from its i-th
\* code unit on; a high surrogate with a code unit after it is joined with it
Utf8(text, i) ==
  IF i > Len(text) THEN <<>>
  ELSE LET joined == text[i] >= 55296 /\ text[i] <= 56319 /\ i + 1 <= Len(text)
           c == IF joined THEN text[i] * 1024 + text[i + 1] - 56613888 ELSE text[i]
           bytes ==
             IF c < 128 THEN <<c>>
             ELSE (IF c < 2048
                     THEN <<((c \div 64) % 32) + 192>>
                     ELSE (IF c < 65536
                             THEN <<((c \div 4096) % 16) + 224>>
                             ELSE <<((c \div 262144) % 8) + 240, ((c \div 4096) % 64) + 128>>)
                          \o <<((c \div 64) % 64) + 128>>)
                  \o <<(c % 64) + 128>>
       IN bytes \o Utf8(text, IF joined THEN i + 2 ELSE i + 1)

\* writeString (591-632): the byte count, then the bytes
writeString(text) == writeVarint32(Len(Utf8(text, 1))) \o Utf8(text, 1)

\* String.fromCharCode(0xFFFD)
Invalid == 65533

Continuation(byte) == byte \div 64 = 2

RECURSIVE Utf16(_, _)
\* the loop of readString (520-586) over the bytes of one string from the i-th
Utf16(b, i) ==
  IF i > Len(b) THEN <<>>
  ELSE LET c1 == b[i]
           left == Len(b) - i
           two == (c1 % 32) * 64 + (b[i + 1] % 64)
           three == (c1 % 16) * 4096 + (b[i + 1] % 64) * 64 + (b[i + 2] % 64)
           four == (c1 % 8) * 262144 + (b[i + 1] % 64) * 4096 + (b[i + 2] % 64) * 64
                     + (b[i + 3] % 64)
       IN CASE c1 < 128 -> <<c1>> \o Utf16(b, i + 1)
            [] c1 \div 32 = 6 ->
                 IF left >= 1 /\ Continuation(b[i + 1]) /\ two >= 128
                   THEN <<two>> \o Utf16(b, i + 2)
                   ELSE <<Invalid>> \o Utf16(b, i + 1)
            [] c1 \div 16 = 14 ->
                 IF /\ left >= 2 /\ Continuation(b[i + 1]) /\ Continuation(b[i + 2])
                    /\ three >= 2048 /\ ~(three >= 55296 /\ three <= 57343)
                   THEN <<three>> \o Utf16(b, i + 3)
                   ELSE <<Invalid>> \o Utf16(b, i + 1)
            [] c1 \div 8 = 30 ->
                 IF /\ left >= 3 /\ Continuation(b[i + 1]) /\ Continuation(b[i + 2])
                    /\ Continuation(b[i + 3]) /\ four >= 65536 /\ four <= 1114111
                   THEN <<((four - 65536) \div 1024) + 55296,
                          ((four - 65536) % 1024) + 56320>> \o Utf16(b, i + 4)
                   ELSE <<Invalid>> \o Utf16(b, i + 1)
            [] OTHER -> <<Invalid>> \o Utf16(b, i + 1)

\* readString(bb, readVarint32(bb)) (512-589)
readString(bb) ==
  LET n == readVarint32(bb)
      start == n.bb.offset
  IN IF n.bb.failed \/ start + n.value > n.bb.limit
       THEN [value |-> <<>>, bb |-> [n.bb EXCEPT !.failed = TRUE]]
       ELSE [value |-> Utf16(SubSeq(n.bb.bytes, start + 1, start + n.value), 1),
             bb |-> [n.bb EXCEPT !.offset = start + n.value]]

\* skipUnknownField (391-408)
skipUnknownField(bb, type) ==
  CASE type = 0 -> VarintBytes(bb, <<>>, bb.limit + 1).bb
    [] type = 2 -> LET n == readVarint32(bb) IN
                   IF n.bb.offset + n.value > n.bb.limit
                     THEN [n.bb EXCEPT !.failed = TRUE]
                     ELSE [n.bb EXCEPT !.offset = @ + n.value]
    [] type = 5 -> IF bb.offset + 4 > bb.limit THEN [bb EXCEPT !.failed = TRUE]
                                               ELSE [bb EXCEPT !.offset = @ + 4]
    [] type = 1 -> IF bb.offset + 8 > bb.limit THEN [bb EXCEPT !.failed = TRUE]
                                               ELSE [bb EXCEPT !.offset = @ + 8]
    [] OTHER -> [bb EXCEPT !.failed = TRUE]

\* A message holds each optional field as a sequence: empty when the field is
\* undefined, the value otherwise.
EmptyMessage ==
  [channel |-> <<>>, publicAggreDeals |-> <<>>, symbol |-> <<>>, createTime |-> <<>>,
   sendTime |-> <<>>]

\* encodePublicAggreDealsV3Api as part_008 imports it under the name
\* _encodePublicAggreDealsV3Api: the exported function takes the message alone and
\* returns its bytes in a buffer of its own; the buffer the wrapper passes as a
\* second argument is left as popByteBuffer made it
EncodeNestedDeals(deals, nested) == nested

\* decodePublicAggreDealsV3Api as part_008 imports it under the name
\* _decodePublicAggreDealsV3Api: the exported function wraps its argument as bytes;
\* given the wrapper's reader it finds no byte in it, returns a message without
\* deals and consumes nothing of the reader
DecodeNestedDeals(bb) == [value |-> [deals |-> <<>>], bb |-> bb]

\* _encodePushDataV3ApiWrapper (10-210) for the fields in use
encodePushDataV3ApiWrapper(message) ==
  LET nested == EncodeNestedDeals(message.publicAggreDeals, <<>>) IN
  (IF message.channel # <<>> THEN writeVarint32(10) \o writeString(message.channel[1])
                             ELSE <<>>)
  \o (IF message.publicAggreDeals # <<>>
        THEN writeVarint32(2514) \o writeVarint32(Len(nested)) \o nested
        ELSE <<>>)
  \o (IF message.symbol # <<>> THEN writeVarint32(26) \o writeString(message.symbol[1])
                               ELSE <<>>)
  \o (IF message.createTime # <<>>
        THEN writeVarint32(40) \o writeVarint64(message.createTime[1]) ELSE <<>>)
  \o (IF message.sendTime # <<>>
        THEN writeVarint32(48) \o writeVarint64(message.sendTime[1]) ELSE <<>>)

RECURSIVE DecodeFields(_, _)
\* the loop of _decodePushDataV3ApiWrapper (216-382)
DecodeFields(bb, message) ==
  IF bb.failed \/ bb.offset >= bb.limit THEN [message |-> message, failed |-> bb.failed]
  ELSE LET tag == readVarint32(bb)
           field == tag.value \div 8
       IN CASE field = 0 -> [message |-> message, failed |-> tag.bb.failed]
            [] field = 1 ->
                 LET r == readString(tag.bb) IN
                 DecodeFields(r.bb, [message EXCEPT !.channel = <<r.value>>])
            [] field = 314 ->
                 LET length == readVarint32(tag.bb)
                     limit == length.bb.limit
                     r == DecodeNestedDeals(
                            [length.bb EXCEPT !.limit = length.bb.offset + length.value])
                 IN DecodeFields([r.bb EXCEPT !.limit = limit],
                                 [message EXCEPT !.publicAggreDeals = <<r.value>>])
            [] field = 3 ->
                 LET r == readString(tag.bb) IN
                 DecodeFields(r.bb, [message EXCEPT !.symbol = <<r.value>>])
            [] field = 5 ->
                 LET r == readVarint64(tag.bb, FALSE) IN
                 DecodeFields(r.bb, [message EXCEPT !.createTime = <<r.value>>])
            [] field = 6 ->
                 LET r == readVarint64(tag.bb, FALSE) IN
                 DecodeFields(r.bb, [message EXCEPT !.sendTime = <<r.value>>])
            \* the decoders of the other nested messages are not defined
            [] field \in (301..313) \cup {315} -> [message |-> message, failed |-> TRUE]
            [] field = 4 ->
                 DecodeFields(readString(tag.bb).bb, message)
            [] OTHER -> DecodeFields(skipUnknownField(tag.bb, tag.value % 8), message)

\* decodePushDataV3ApiWrapper (212-214)
decodePushDataV3ApiWrapper(binary) == DecodeFields(wrapByteBuffer(binary), EmptyMessage)

\* The strings and int64 values of the messages encoded: the empty string, one,
\* two and three byte characters and a surrogate pair; zero, the edges of the
\* one, four and five byte varints, a timestamp in milliseconds, -1 and the
\* least and greatest int64.
CodecStrings == {<<>>, <<115>>, <<233, 8364>>, <<55357, 56832>>}

Timestamp == Long(0, 395, 53221, 26624)

CodecLongs ==
  {Long(0, 0, 0, 0), Long(0, 0, 0, 127), Long(0, 0, 0, 128), Long(0, 0, 4096, 0),
   Timestamp, Long(65535, 65535, 65535, 65535), Long(32768, 0, 0, 0),
   Long(32767, 65535, 65535, 65535)}

Deal == [price |-> <<53, 48>>, quantity |-> <<49>>, tradeType |-> 1, time |-> Timestamp]

Optional(values) == {<<>>} \cup {<<v>> : v \in values}

Messages ==
  [channel : Optional(CodecStrings),
   publicAggreDeals : Optional({[deals |-> <<>>], [deals |-> <<Deal>>]}),
   symbol : Optional({<<115>>}),
   createTime : Optional(CodecLongs),
   sendTime : Optional({Timestamp})]

Encode(message) ==
  /\ codec' = [NoCodec EXCEPT !.message = <<message>>,
                              !.binary = encodePushDataV3ApiWrapper(message)]
  /\ UNCHANGED <<storeVars, adapter, activeConnections, dex, stopped, ev, ops, fetcher>>

Decode ==
  /\ codec.message # <<>>
  /\ codec.decoded = <<>>
  /\ codec' = [codec EXCEPT !.decoded = <<decodePushDataV3ApiWrapper(codec.binary)>>]
  /\ UNCHANGED <<storeVars, adapter, activeConnections, dex, stopped, ev, ops, fetcher>>

\* ProtobufManager.handleMEXCMessage (4-26): the first deal, or none (null) when
\* there is no deal or the decoder threw
handleMEXCMessage(input) ==
  LET wrapper == decodePushDataV3ApiWrapper(input) IN
  IF wrapper.failed THEN <<>>
  ELSE IF wrapper.message.publicAggreDeals # <<>>
          /\ Len(wrapper.message.publicAggreDeals[1].deals) > 0
    THEN <<wrapper.message.publicAggreDeals[1].deals[1]>>
    ELSE <<>>

\* The bytes the venue sends.  A deal as protobuf writes it: price = 1,
\* quantity = 2, tradeType = 3, time = 4; the deals message repeats deals = 1; the
\* wrapper carries it as field 314.
WireDeal(deal) ==
  writeVarint32(10) \o writeString(deal.price) \o writeVarint32(18)
    \o writeString(deal.quantity) \o writeVarint32(24) \o writeVarint32(deal.tradeType)
    \o writeVarint32(32) \o writeVarint64(deal.time)

Prefixed(bytes) == writeVarint32(Len(bytes)) \o bytes

RECURSIVE WireDeals(_)
WireDeals(deals) ==
  IF deals = <<>> THEN <<>>
  ELSE writeVarint32(10) \o Prefixed(WireDeal(Head(deals))) \o WireDeals(Tail(deals))

LaterDeal == [Deal EXCEPT !.price = <<53, 49>>]

\* a field the wrapper does not know (number 100, length-delimited, one byte), a
\* channel and a send time
WireFields ==
  {<<>>, writeVarint32(802) \o <<1, 7>>, writeVarint32(10) \o writeString(<<115>>),
   writeVarint32(48) \o writeVarint64(Timestamp)}

\* Well-formed frames with fields before and after the deals, frames without the
\* deals field, and malformed ones: a varint cut short, a length that runs past
\* the buffer, a wire type that does not exist (3 and 7) for an unknown field.
WireFrames ==
  {[bytes |-> before \o writeVarint32(2514) \o Prefixed(WireDeals(deals)) \o after,
    deals |-> deals, wellFormed |-> TRUE] :
     before \in WireFields, after \in WireFields,
     deals \in {<<>>, <<Deal>>, <<Deal, LaterDeal>>}}
  \cup {[bytes |-> before, deals |-> <<>>, wellFormed |-> TRUE] : before \in WireFields}
  \cup {[bytes |-> before \o bad, deals |-> <<>>, wellFormed |-> FALSE] :
          before \in WireFields,
          bad \in {<<128>>, <<10, 5, 115>>, writeVarint32(2514) \o <<9, 10>>,
                   writeVarint32(803) \o <<1, 7>>, writeVarint32(807)}}

\* a binary frame of the venue is handed to handleMEXCMessage
Receive(frame) ==
  /\ codec' = [NoCodec EXCEPT !.binary = frame.bytes, !.frame = <<frame>>,
                              !.firstDeal = handleMEXCMessage(frame.bytes)]
  /\ UNCHANGED <<storeVars, adapter, activeConnections, dex, stopped, ev, ops, fetcher>>

\* a message is encoded and the bytes are decoded; a frame is received
NextCodec ==
  \/ \E message \in Messages : Encode(message)
  \/ Decode
  \/ \E frame \in WireFrames : Receive(frame)

SpecCodec == Init /\ [][NextCodec]_vars

\* ---------------------------------------------------------------- parsed frames
RECURSIVE parseFloat(_, _)
\* parseFloat of a text of decimal digits (char codes) read after value
parseFloat(text, value) ==
  IF text = <<>> \/ Head(text) < 48 \/ Head(text) > 57 THEN value
  ELSE parseFloat(Tail(text), 10 * value + (Head(text) - 48))

\* MEXCExchange.parseSpotMessage (part_006:69-83): no sample without a deal;
\* deal.price || '0' turns an absent or empty price into the text "0"
parseSpotMessage(data) ==
  CHOOSE priceUpdate \in
    { IF deal = <<>> THEN <<>>
      ELSE <<parseFloat(IF deal[1].price = <<>> THEN <<48>> ELSE deal[1].price, 0)>> :
        deal \in {handleMEXCMessage(data)} } : TRUE

\* parseFuturesMessage (part_006:85-150) for a push.ticker message whose
\* lastPrice is the given text
parseFuturesMessage(lastPrice) == <<parseFloat(lastPrice, 0)>>

\* The lastPrice texts of the ticker messages: "5250" and "0".
TickerTexts == {<<53, 50, 53, 48>>, <<48>>}

\* Operations per run of SpecParse.
MaxParseOps == 6

\* MEXCExchange.parseMessage (part_006:56-67): by market
parseMessage(data, m) ==
  IF m = "spot" THEN parseSpotMessage(data) ELSE parseFuturesMessage(data)

\* onmessage of the referenced socket of a market with the content data:
\* handleMessage (part_004:186-195) stores what parseMessage returns, if anything
ParsedFrame(m, data) ==
  /\ adapter.ws[m] = "OPEN"
  /\ adapter.subscribed[m]
  /\ \E priceUpdate \in {parseMessage(data, m)} :
       IF priceUpdate # <<>>
         THEN /\ UpdatePrice(adapter.ticker, ExchangeKey(m), priceUpdate[1])
              /\ Apply(State, "frame", adapter.ticker, m)
         ELSE /\ UNCHANGED storeVars
              /\ Apply(State, "frameDropped", adapter.ticker, m)

\* the session of a venue with both markets, its frames parsed, next to the feed
\* of another venue
NextParse ==
  \/ /\ ops < MaxParseOps /\ ops' = ops + 1
     /\ adapter.ticker = ""
     /\ Connect(MainTicker, Markets)
  \/ /\ ops < MaxParseOps /\ ops' = ops + 1
     /\ \E m \in Markets : SocketOpen(m, TRUE)
  \/ /\ ops < MaxParseOps /\ ops' = ops + 1
     /\ \E frame \in WireFrames : ParsedFrame("spot", frame.bytes)
  \/ /\ ops < MaxParseOps /\ ops' = ops + 1
     /\ \E text \in TickerTexts : ParsedFrame("futures", text)
  \/ /\ ops < MaxParseOps /\ ops' = ops + 1
     /\ \E p \in Feed(MainTicker, "gate") : UpdatePrice(MainTicker, "gate", p)
     /\ UNCHANGED <<adapter, activeConnections, dex, stopped, ev, codec, fetcher>>

SpecParse == Init /\ [][NextParse]_vars

\* ---------------------------------------------------------------- pool polls
WETH_CACHE_DURATION == 3000

\* Polls started and clock steps per run of SpecPoll.
MaxPolls == 2

MaxClock == 2

\* What the pools of a chain quote: the token in the stable coin, the token in the
\* wrapped native coin, the wrapped native coin in the stable coin; and whether
\* the stable coin has 18 decimals there.
Pools(chain) ==
  IF chain = "eth"
    THEN [stable |-> 5000, inWeth |-> 2500, weth |-> 2, stable18 |-> FALSE]
    ELSE [stable |-> 5250, inWeth |-> 1750, weth |-> 3, stable18 |-> TRUE]

\* The ticker startMonitoring is called with for a chain: one token per chain.
PolledTicker(chain) == IF chain = "eth" THEN MainTicker ELSE "BBB"

\* `${chain}-dex`
DexKey(chain) == IF chain = "eth" THEN "eth-dex" ELSE "bsc-dex"

\* reserve quotient after the division by 10^decimals: with the decimals read, or
\* with the default 18 of getTokenDecimals' catch (211-226), which for a coin of 6
\* decimals makes the quotient 10^12 times too small
Adjusted(quote, decimalsRead, both18) ==
  IF decimalsRead \/ both18 THEN quote ELSE (quote \div 1000000) \div 1000000

\* a getTokenPrice call that awaits the RPC read `at`; failed counts the reads of
\* the call that have failed, pool is the pair that was found
Poll(id, chain) ==
  [id |-> id, chain |-> chain, at |-> "getPairUSDT", pool |-> "", wethPrice |-> 0,
   failed |-> 0]

\* the cache test of getWETHPrice (289-294)
CacheFresh(f) ==
  /\ f.wethPriceCache # <<>>
  /\ f.now - f.wethPriceCache[1].timestamp < WETH_CACHE_DURATION

\* One await of poll number i returns with outcome "ok", "none" (getPair answers
\* the zero address) or "fail" (the read rejects): the call runs on to its next
\* await, to its return (price set) or to its throw (threw set).
resume(f, i, outcome) ==
  LET poll == f.polls[i]
      q == Pools(poll.chain)
      bad == IF outcome = "fail" THEN 1 ELSE 0
      waits(at, pool) ==
        [f |-> [f EXCEPT !.polls[i].at = at, !.polls[i].pool = pool,
                         !.polls[i].failed = @ + bad],
         cache |-> "", price |-> <<>>, threw |-> FALSE]
      throws == [f |-> [f EXCEPT !.polls[i].failed = @ + bad],
                 cache |-> "", price |-> <<>>, threw |-> TRUE]
      returns(price) == [f |-> [f EXCEPT !.polls[i].failed = @ + bad],
                         cache |-> "", price |-> <<price>>, threw |-> FALSE]
  IN CASE poll.at = "getPairUSDT" ->
            IF outcome = "ok" THEN waits("reserves", "usdt") ELSE waits("getPairUSDC", "")
       [] poll.at = "getPairUSDC" ->
            IF outcome = "ok" THEN waits("reserves", "usdc") ELSE waits("getPairWETH", "")
       [] poll.at = "getPairWETH" ->
            IF outcome # "ok" THEN throws
            ELSE IF CacheFresh(f)
              THEN [f |-> [f EXCEPT !.polls[i].at = "reserves", !.polls[i].pool = "weth",
                                    !.polls[i].wethPrice = f.wethPriceCache[1].price],
                    cache |-> "hit", price |-> <<>>, threw |-> FALSE]
              ELSE [waits("wethReserves", "weth") EXCEPT !.cache = "miss"]
       [] poll.at = "wethReserves" ->
            IF outcome = "ok" THEN waits("wethDecimals", "weth") ELSE throws
       [] poll.at = "wethDecimals" ->
            LET wethPrice == Adjusted(q.weth, outcome = "ok", q.stable18) IN
            [f |-> [f EXCEPT !.polls[i].at = "reserves",
                             !.polls[i].wethPrice = wethPrice,
                             !.polls[i].failed = @ + bad,
                             !.wethPriceCache =
                               <<[price |-> wethPrice, timestamp |-> f.now,
                                  chain |-> poll.chain]>>],
             cache |-> "stored", price |-> <<>>, threw |-> FALSE]
       [] poll.at = "reserves" ->
            IF outcome = "ok" THEN waits("decimals", poll.pool) ELSE throws
       [] poll.at = "decimals" ->
            IF poll.pool = "weth"
              THEN returns(Adjusted(q.inWeth, outcome = "ok", TRUE) * poll.wethPrice)
              ELSE returns(Adjusted(q.stable, outcome = "ok", q.stable18))

\* the outcomes the read a poll awaits can have
Outcomes(poll) ==
  IF poll.at \in {"getPairUSDT", "getPairUSDC", "getPairWETH"}
    THEN {"ok", "none", "fail"}
    ELSE {"ok", "fail"}

FetcherEvent(op, poll, cache) ==
  [op |-> op, id |-> poll.id, chain |-> poll.chain, cache |-> cache,
   failed |-> poll.failed]

\* fetchPrice (353-359): a getTokenPrice call is started
fetchPrice(f, chain) ==
  [f EXCEPT !.started = @ + 1, !.polls = Append(@, Poll(f.started + 1, chain))]

\* DEXPriceFetcher.startMonitoring: a first poll at once, and the interval
StartPolling(chain) ==
  /\ chain \notin fetcher.intervals
  /\ fetcher.started < MaxPolls
  /\ fetcher' = [fetchPrice(fetcher, chain) EXCEPT
                   !.intervals = @ \cup {chain},
                   !.event = FetcherEvent("startMonitoring", Poll(fetcher.started + 1, chain), "")]
  /\ UNCHANGED <<storeVars, adapter, activeConnections, dex, stopped, ev, ops, codec>>

\* the interval of a chain fires
IntervalFires(chain) ==
  /\ chain \in fetcher.intervals
  /\ fetcher.started < MaxPolls
  /\ fetcher' = [fetchPrice(fetcher, chain) EXCEPT
                   !.event = FetcherEvent("interval", Poll(fetcher.started + 1, chain), "")]
  /\ UNCHANGED <<storeVars, adapter, activeConnections, dex, stopped, ev, ops, codec>>

\* an RPC read of poll number i returns: getTokenPrice (98-118) goes on, and when
\* fetchTokenPriceFromDEX has returned it hands the sample to the store; when it
\* has thrown, fetchPrice logs the error
RpcReturns(i, outcome) ==
  LET r == resume(fetcher, i, outcome)
      poll == r.f.polls[i]
      ended == r.price # <<>> \/ r.threw
      op == IF r.price # <<>> THEN "updated" ELSE IF r.threw THEN "failed" ELSE "awaits"
  IN /\ fetcher' = [r.f EXCEPT
                      !.polls = IF ended THEN Splice(@, i) ELSE @,
                      !.stored[poll.chain] = IF r.price # <<>> THEN poll.id ELSE @,
                      !.event = FetcherEvent(op, poll, r.cache)]
     /\ IF r.price # <<>>
          THEN UpdatePrice(PolledTicker(poll.chain), DexKey(poll.chain), r.price[1])
          ELSE UNCHANGED storeVars
     /\ UNCHANGED <<adapter, activeConnections, dex, stopped, ev, ops, codec>>

\* half the cache duration passes
Elapse ==
  /\ fetcher.now < MaxClock * (WETH_CACHE_DURATION \div 2)
  /\ fetcher' = [fetcher EXCEPT !.now = @ + WETH_CACHE_DURATION \div 2,
                                !.event = [@ EXCEPT !.op = "elapse", !.cache = ""]]
  /\ UNCHANGED <<storeVars, adapter, activeConnections, dex, stopped, ev, ops, codec>>

NextPoll ==
  \/ \E chain \in Chains : StartPolling(chain)
  \/ \E chain \in Chains : IntervalFires(chain)
  \/ \E i \in 1..Len(fetcher.polls) :
       \E outcome \in Outcomes(fetcher.polls[i]) : RpcReturns(i, outcome)
  \/ Elapse

SpecPoll == Init /\ [][NextPoll]_vars

\* ---------------------------------------------------------------- properties
\* the threshold set for a ticker as the interface states it: the value of the last
\* setThreshold, the default 1 while none is set
ThresholdOf(t) == IF thresholds[t] = <<>> THEN 100 ELSE thresholds[t][1]

OppsOK(opps, P(_)) == \A i \in 1..Len(opps) : P(opps[i])

\* C1: after updatePrice(ticker, exchange, s) getPrices(ticker) maps exchange to
\* exactly s, and the entry of every other (ticker, exchange) is what it was; no
\* operation but updatePrice of that entry or clearTicker of its ticker changes an
\* entry, so each entry is the sample of the last updatePrice for it.
C1_LatestSampleKept ==
  [][\A t \in Tickers, e \in Exchanges :
       IF last'.op = "updatePrice" /\ last'.ticker = t /\ last'.exchange = e
         THEN /\ MapHas(prices'[t], e)
              /\ MapGet(prices'[t], e) = Sample(e, last'.price)
              /\ Cardinality({i \in 1..Len(prices'[t]) : prices'[t][i][1] = e}) = 1
         ELSE \/ last'.op = "clearTicker" /\ last'.ticker = t
              \/ /\ MapHas(prices'[t], e) = MapHas(prices[t], e)
                 /\ MapHas(prices[t], e) => MapGet(prices'[t], e) = MapGet(prices[t], e)
    ]_vars

\* C1 witness: a sample was overwritten while another exchange and the other
\* ticker held samples
C1_Witness ==
  /\ last.op = "updatePrice"
  /\ Len(prices[last.ticker]) >= 2
  /\ prices[last.ticker][1][1] = last.exchange
  /\ \E u \in Tickers \ {last.ticker} : prices[u] # <<>>

\* C2: every opportunity getOpportunities returns, and every opportunity handed
\* to a subscriber, has a spread of at least the threshold currently set for its
\* ticker.
C2_SpreadAtLeastThreshold ==
  /\ \A t \in Tickers :
       OppsOK(getOpportunities(t), LAMBDA o : o.spread >= ThresholdOf(t))
  /\ \A i \in 1..Len(last.calls) :
       OppsOK(last.calls[i].opportunities, LAMBDA o : o.spread >= ThresholdOf(last.ticker))

\* the samples an opportunity pairs: bought no dearer than sold, on two exchanges
PairOK(o) ==
  /\ o.buyFrom.price <= o.sellTo.price
  /\ o.buyFrom.exchange # o.sellTo.exchange

\* both sides are samples the ticker holds
SamplesOf(t, o) ==
  /\ MapHas(prices[t], o.buyFrom.exchange)
  /\ MapGet(prices[t], o.buyFrom.exchange) = o.buyFrom
  /\ MapHas(prices[t], o.sellTo.exchange)
  /\ MapGet(prices[t], o.sellTo.exchange) = o.sellTo

\* C3: every stored opportunity and every opportunity handed to a subscriber buys
\* at a price not above the price it sells at, on two different exchanges; the set
\* an update computes, stores or hands out pairs samples its ticker holds.
C3_BuyNotAboveSell ==
  /\ \A t \in Tickers : OppsOK(getOpportunities(t), PairOK)
  /\ OppsOK(last.computed, LAMBDA o : PairOK(o) /\ SamplesOf(last.ticker, o))
  /\ \A i \in 1..Len(last.calls) :
       OppsOK(last.calls[i].opportunities, LAMBDA o : PairOK(o) /\ SamplesOf(last.ticker, o))
  /\ (last.op = "updatePrice" /\ last.significant) =>
       OppsOK(getOpportunities(last.ticker), LAMBDA o : SamplesOf(last.ticker, o))

\* C3 witness: a subscriber was handed two opportunities, one of them pairing
\* samples that the Map holds in the order (dearer, cheaper)
C3_Witness ==
  /\ last.op = "updatePrice"
  /\ Len(last.calls) >= 1
  /\ Len(last.calls[1].opportunities) >= 2
  /\ \E i \in 1..Len(last.computed) :
       MapIndex(prices[last.ticker], last.computed[i].buyFrom.exchange, 1)
         > MapIndex(prices[last.ticker], last.computed[i].sellTo.exchange, 1)

\* k is 100 * (max - min) / min of the two prices rounded to the nearest 0.01
NearestSpread(k, p, q) ==
  LET hi == Max(p, q)
      lo == Min(p, q)
  IN 2 * Abs(k * lo - (hi - lo) * 10000) <= Abs(lo)

\* 100 * (max - min) / min is at least th - 1/2 hundredths, so that it rounds to th
\* or more
SpreadReaches(th, p, q) ==
  LET hi == Max(p, q)
      lo == Min(p, q)
  IN IF lo > 0 THEN 2 * (hi - lo) * 10000 >= (2 * th - 1) * lo
     ELSE 2 * (hi - lo) * 10000 <= (2 * th - 1) * lo

\* the opportunities of a list that pair the exchanges e and f, in either direction
OppsOfPair(opps, e, f) ==
  {i \in 1..Len(opps) : {opps[i].buyFrom.exchange, opps[i].sellTo.exchange} = {e, f}}

\* the set opps is the arbitrage set of the samples of ticker t for threshold th
ArbitrageSetOf(opps, t, th) ==
  LET held == MapKeys(prices[t]) IN
  IF Cardinality(held) < 2 THEN opps = <<>>
  ELSE
    /\ \A e, f \in held :
         e # f =>
           LET p == MapGet(prices[t], e).price
               q == MapGet(prices[t], f).price
           IN IF SpreadReaches(th, p, q)
                THEN Cardinality(OppsOfPair(opps, e, f)) = 1
                ELSE OppsOfPair(opps, e, f) = {}
    /\ \A i \in 1..Len(opps) :
         /\ PairOK(opps[i])
         /\ SamplesOf(t, opps[i])
         /\ NearestSpread(opps[i].spread, opps[i].buyFrom.price, opps[i].sellTo.price)
         /\ opps[i].profit = opps[i].sellTo.price - opps[i].buyFrom.price
    /\ \A i, j \in 1..Len(opps) :
         (/\ opps[i].buyFrom.exchange = opps[j].buyFrom.exchange
          /\ opps[i].sellTo.exchange = opps[j].sellTo.exchange) => i = j

\* C4: the set updatePrice computes holds exactly one opportunity for each pair of
\* exchanges whose rounded spread is at least the ticker's threshold (a spread equal
\* to the threshold included), nothing else, and no (buy, sell) pair twice; with
\* fewer than two samples it is empty.
C4_ExactlyThePairsAboveThreshold ==
  last.op = "updatePrice" => ArbitrageSetOf(last.computed, last.ticker, ThresholdOf(last.ticker))

\* does a dispatch hand the set opps to each subscriber of t, in order, once
DeliveredTo(cbs, calls, opps) ==
  /\ Len(calls) = Len(cbs)
  /\ \A i \in 1..Len(cbs) :
       /\ calls[i].callback = cbs[i]
       /\ calls[i].opportunities = opps

\* C5: updatePrice invokes no subscriber when the set it computes has as many
\* opportunities as the set the preceding update of the ticker computed, and a
\* top-ranked spread less than 0.1 percentage points away from that set's.
C5_NoNotificationBelowTenth ==
  [][(/\ last'.op = "updatePrice"
      /\ Len(last'.computed) = Len(computed[last'.ticker])
      /\ Abs(HighestSpread(last'.computed)
               - HighestSpread(computed[last'.ticker])) < 10)
       => last'.calls = <<>>
    ]_vars

\* C6: updatePrice hands the set it computes to every subscriber of the ticker
\* whenever that set differs from the set the preceding update computed in its
\* number of opportunities, or in its top-ranked spread by at least 0.1 percentage
\* points.
C6_NotifiedOnSignificantChange ==
  [][(/\ last'.op = "updatePrice"
      /\ \/ Len(last'.computed) # Len(computed[last'.ticker])
         \/ Abs(HighestSpread(last'.computed)
                  - HighestSpread(computed[last'.ticker])) >= 10)
       => DeliveredTo(callbacks[last'.ticker], last'.calls, last'.computed)
    ]_vars

\* C7: after every updatePrice getOpportunities returns the set that update
\* computed from the ticker's samples and threshold, notified or not.
C7_LatestSetStored ==
  last.op = "updatePrice" => getOpportunities(last.ticker) = last.computed

\* C8: the list updatePrice computes is in non-increasing order of absolute profit
\* sellTo.price - buyFrom.price.
C8_SortedByProfit ==
  last.op = "updatePrice" =>
    \A i, j \in 1..Len(last.computed) :
      i < j =>
        /\ last.computed[i].profit >= last.computed[j].profit
        /\ last.computed[i].sellTo.price - last.computed[i].buyFrom.price
             >= last.computed[j].sellTo.price - last.computed[j].buyFrom.price

\* C8 witness: three opportunities of three different profits
C8_Witness ==
  /\ last.op = "updatePrice"
  /\ Len(last.computed) = 3
  /\ last.computed[1].profit > last.computed[2].profit
  /\ last.computed[2].profit > last.computed[3].profit

\* C9: updatePrice with a negative price changes neither the samples nor the
\* stored opportunities, invokes no subscriber and raises nothing.
C9_InvalidSampleRejected ==
  [][(last'.op = "updatePrice" /\ last'.price < 0) =>
       /\ prices' = prices
       /\ lastOpportunities' = lastOpportunities
       /\ last'.calls = <<>>
       /\ ~last'.escaped
    ]_vars

\* C10: a dispatched notification invokes every subscription of the ticker once, in
\* order, with the new set, whether or not an earlier callback threw; nothing is
\* raised to the caller of updatePrice, and the sample and the set stay stored.
C10_EveryCallbackInvoked ==
  (last.op = "updatePrice" /\ last.significant) =>
    /\ DeliveredTo(callbacks[last.ticker], last.calls, last.computed)
    /\ ~last.escaped
    /\ MapHas(prices[last.ticker], last.exchange)
    /\ MapGet(prices[last.ticker], last.exchange) = Sample(last.exchange, last.price)
    /\ getOpportunities(last.ticker) = last.computed

\* C10 witness: the first of two subscribers threw and the second was invoked
C10_Witness ==
  /\ last.op = "updatePrice"
  /\ last.significant
  /\ Len(last.calls) = 2
  /\ last.calls[1].threw
  /\ last.calls[2].callback = CbOk
  /\ last.computed # <<>>

\* C11: clearTicker(t) leaves getPrices(t) and getOpportunities(t) empty, the
\* threshold of t unset and t without subscribers, and changes nothing of any other
\* ticker; an updatePrice invokes only callbacks subscribed to its ticker at that
\* moment, so none that was subscribed before a clearTicker and not again since.
C11_ClearTickerDropsTicker ==
  [][/\ last'.op = "clearTicker" =>
          LET t == last'.ticker IN
          /\ prices'[t] = <<>>
          /\ lastOpportunities'[t] = <<>>
          /\ thresholds'[t] = <<>>
          /\ callbacks'[t] = <<>>
          /\ getMonitoredTickers' = getMonitoredTickers \ {t}
          /\ \A u \in Tickers \ {t} :
               /\ prices'[u] = prices[u]
               /\ lastOpportunities'[u] = lastOpportunities[u]
               /\ thresholds'[u] = thresholds[u]
               /\ callbacks'[u] = callbacks[u]
     /\ last'.op = "updatePrice" =>
          /\ Len(last'.calls) <= Len(callbacks[last'.ticker])
          /\ \A i \in 1..Len(last'.calls) :
               last'.calls[i].callback = callbacks[last'.ticker][i]
     /\ last'.op \in {"updatePrice", "setThreshold", "unsubscribe"} =>
          \A t \in Tickers : Len(callbacks'[t]) <= Len(callbacks[t])
    ]_vars

\* C11 witness: a ticker holding a sample and a subscriber was cleared while the
\* other ticker held a sample
C11_Witness ==
  /\ last.op = "clearTicker"
  /\ last.arg.samples >= 1
  /\ last.arg.subscribers >= 1
  /\ \E u \in Tickers \ {last.ticker} : prices[u] # <<>>

\* C12: setThreshold(t, x) sets the threshold of t to x and changes nothing else:
\* no subscriber is invoked, the samples, stored opportunity sets and subscribers
\* of every ticker and the thresholds of the other tickers stay, and a second
\* setThreshold(t, x) would leave the state it reached.
C12_SetThresholdOnlyThreshold ==
  [][last'.op = "setThreshold" =>
       LET t == last'.ticker
           x == last'.arg
       IN /\ thresholds'[t] = <<x>>
          /\ \A u \in Tickers \ {t} : thresholds'[u] = thresholds[u]
          /\ prices' = prices
          /\ lastOpportunities' = lastOpportunities
          /\ callbacks' = callbacks
          /\ last'.calls = <<>>
          /\ ~last'.escaped
          /\ ThresholdsSet(thresholds', t, x) = thresholds'
    ]_vars

\* C12 witness: the threshold was raised above the spread of a stored opportunity
\* of a ticker that has a subscriber
C12_Witness ==
  /\ last.op = "setThreshold"
  /\ last.arg = 500
  /\ callbacks[last.ticker] # <<>>
  /\ \E i \in 1..Len(getOpportunities(last.ticker)) :
       getOpportunities(last.ticker)[i].spread < 500

\* sockets of a market that deliver samples: open and subscribed
FeedingSockets(m) ==
  IF adapter.ws[m] = "OPEN" /\ adapter.subscribed[m] THEN 1 ELSE 0

\* C13: at any time at most one socket feeds the store for a (venue, market), and
\* so for every (ticker, venue, market), and at most one poll loop runs for a
\* (ticker, chain).
C13_AtMostOneActiveAdapter ==
  /\ \A m \in Markets : FeedingSockets(m) <= 1
  /\ \A t \in Tickers : dex.loops[t] <= 1

\* getPrices(t) is empty and no key of activeConnections belongs to t
Quiet(t) ==
  /\ getPrices(t) = <<>>
  /\ \A i \in 1..Len(activeConnections) : ~KeyOfTicker(activeConnections[i][1], t)

\* C14: stopMonitoring(t) leaves getPrices(t) empty and no connection key of t,
\* and from then on every step that is not a startMonitoring or reconnectExchange
\* for t (a timer, a socket event, a frame, a poll) keeps both so and opens no
\* socket for t.
C14_StoppedStaysStopped ==
  [][\A t \in Tickers :
       /\ (ev'.op = "stopMonitoring" /\ ev'.ticker = t) => Quiet(t)'
       /\ (Quiet(t) /\ ~(/\ ev'.op \in {"startMonitoring", "reconnectExchange",
                                         "reconnectExchangeNew"}
                          /\ ev'.ticker = t))
            => /\ Quiet(t)'
               /\ adapter'.ticker = t => ev'.started = {}
    ]_vars

\* the step is the close event of the socket the field references, and the client
\* had not closed that socket
UnsolicitedClose(m) ==
  /\ ev'.op \in {"close", "closeClean"}
  /\ ev'.market = m
  /\ adapter.ws[m] \in {"CONNECTING", "OPEN"}

\* C15: the attempt counter of a market never exceeds the budget of 5; when a
\* socket closes uncleanly with the budget used up, no reconnect is scheduled, and
\* once no attempt is pending and no socket is left the status reported for the
\* market is 'error'.
C15_BudgetThenTerminalError ==
  [][\A m \in Markets :
       /\ adapter'.reconnectAttempts[m] <= maxReconnectAttempts
       /\ (/\ ev'.op \in {"close", "closeReplaced"}
           /\ ev'.market = m
           /\ adapter.reconnectAttempts[m] >= maxReconnectAttempts)
            => /\ adapter'.reconnectTimers[m] = adapter.reconnectTimers[m]
               /\ (adapter'.reconnectTimers[m] = 0 /\ LiveSockets(adapter', m) = 0)
                    => adapter'.status[m] = "error"
    ]_vars

\* C16: when the referenced socket of a market closes uncleanly, the client not
\* having closed it, and the budget is not used up, a reconnect is scheduled;
\* also when the socket never opened.
C16_UncleanCloseSchedulesReconnect ==
  [][\A m \in Markets :
       (/\ UnsolicitedClose(m)
        /\ ev'.op = "close"
        /\ adapter.reconnectAttempts[m] < maxReconnectAttempts)
         => adapter'.reconnectTimers[m] = adapter.reconnectTimers[m] + 1
    ]_vars

\* C17: a market closed by disconnect gets no new socket before connect or
\* reconnect is called for it, whatever timer was pending.
C17_NoAttemptAfterDisconnect ==
  [][\A m \in Markets :
       (m \in stopped /\ m \in stopped') => m \notin ev'.started
    ]_vars

\* C18: reconnectExchange on a key that has a session sets the attempt counter of
\* the market to zero and opens a socket for it; if that socket then closes
\* uncleanly, a reconnect is scheduled.
C18_ReconnectResetsAndRetries ==
  [][\A m \in Markets :
       /\ (ev'.op = "reconnectExchange" /\ ev'.market = m)
            => /\ adapter'.reconnectAttempts[m] = 0
               /\ m \in ev'.started
       /\ (/\ ev.op = "reconnectExchange"
           /\ ev.market = m
           /\ UnsolicitedClose(m)
           /\ ev'.op = "close")
            => adapter'.reconnectTimers[m] = adapter.reconnectTimers[m] + 1
    ]_vars

\* C19: startMonitoring never rejects; for every (venue, market) of the spec, the
\* adapter of a known venue is started whatever else in the spec failed, and one
\* that cannot be started is reported by getConnectionStatus(ticker) with status
\* 'error'; the pool of the spec is started as well.
C19_FailuresRecordedOthersStarted ==
  [][\A config \in Configs :
       StartMonitoring(config) =>
         /\ ~ev'.threw
         /\ config.dex => MapHas(activeConnections', ConnectionKey(config.ticker, Chain, "dex"))
         /\ \A i \in 1..Len(config.exchanges) :
              LET name == config.exchanges[i][1]
                  m == config.exchanges[i][2]
                  reported == getConnectionStatus(config.ticker)'
              IN IF createExchange(name)
                   THEN /\ MapHas(activeConnections', ConnectionKey(config.ticker, name, m))
                        /\ m \in ev'.started
                   ELSE \E j \in 1..Len(reported) :
                          /\ reported[j].exchange = ManagerExchangeKey(name, m)
                          /\ reported[j].status = "error"
    ]_vars

\* C20: startMonitoringAuto rejects when discovery finds no venue listing the
\* ticker, and then leaves the thresholds of the store, the connection records,
\* the adapter and the poll loops as they were.
C20_AutoFailsWithoutVenue ==
  [][/\ \A t \in Tickers :
          StartMonitoringAuto(t, 100, [spot |-> FALSE, futures |-> FALSE]) =>
            ev'.op = "startMonitoringAuto" /\ ev'.threw
     /\ ev'.op = "startMonitoringAuto" /\ ev'.threw =>
          /\ thresholds' = thresholds
          /\ activeConnections' = activeConnections
          /\ adapter' = adapter
          /\ dex' = dex
    ]_vars

\* C20 witness: discovery failed for a ticker without a threshold while the other
\* ticker was monitored
C20_Witness ==
  /\ ev.op = "startMonitoringAuto"
  /\ ev.threw
  /\ thresholds[ev.ticker] = <<>>
  /\ \E i \in 1..Len(activeConnections) : ~KeyOfTicker(activeConnections[i][1], ev.ticker)

\* what a caller can observe of the connections: the records with their statuses,
\* and per market of the venue the sockets that are connecting or open, the
\* timers pending and the attempt counter; per ticker the poll loops
Observable(s) ==
  [connections |-> s.conns,
   sockets |-> [m \in Markets |->
                  (IF s.ex.ws[m] \in {"CONNECTING", "OPEN"} THEN 1 ELSE 0)
                    + s.ex.replaced[m]["CONNECTING"] + s.ex.replaced[m]["OPEN"]],
   timers |-> [m \in Markets |->
                 s.ex.reconnectTimers[m] + s.ex.connectTimers[m].old
                   + s.ex.connectTimers[m].cur],
   attempts |-> s.ex.reconnectAttempts,
   loops |-> s.dex.loops]

\* C21: startMonitoring(spec), stopMonitoring(ticker), startMonitoring(spec) leave
\* the same records, statuses, sockets, poll loops, pending timers and attempt
\* counters as one startMonitoring(spec) from the same state (the threshold is
\* the one of the spec in both cases).
C21_StartStopStartIsStart ==
  \A config \in Configs :
    Observable(startMonitoring(
                 stopMonitoring(startMonitoring(State, config), config.ticker), config))
      = Observable(startMonitoring(State, config))

\* C22: after emergencyDisconnectAll the manager holds no connection record and
\* getPrices is empty for every ticker that had a record, whatever the names of
\* the tickers; a second call right after the first changes nothing.
C22_EmergencyStopsEverything ==
  [][ev'.op = "emergencyDisconnectAll" =>
       /\ activeConnections' = <<>>
       /\ \A t \in TickerNames :
            (\E i \in 1..Len(activeConnections) : activeConnections[i][1][1] = t)
              => prices'[t] = <<>>
       /\ ev.op = "emergencyDisconnectAll" =>
            /\ prices' = prices
            /\ thresholds' = thresholds
            /\ callbacks' = callbacks
            /\ adapter' = adapter
            /\ dex' = dex
    ]_vars

\* C23: a sample is handed to the store only when no frame of the session that
\* arrived before its own is still waiting to be handed over, so the samples of
\* one session reach updatePrice in the order of their frames, text or binary.
C23_FramesInArrivalOrder ==
  [][\A m \in Markets :
       /\ (ev'.op = "frame" /\ ev'.market = m) => adapter.decoding[m] = <<>>
       /\ (ev'.op = "blobDecoded" /\ ev'.market = m) =>
            /\ last'.price = Head(adapter.decoding[m])
            /\ adapter'.decoding[m] = Tail(adapter.decoding[m])
    ]_vars

\* C24: decoding the bytes encodePushDataV3ApiWrapper makes of a message of the
\* supported fields succeeds and gives the message back, negative int64 values
\* included.
C24_EncodeDecodeIdentity ==
  codec.decoded # <<>> =>
    codec.decoded[1] = [message |-> codec.message[1], failed |-> FALSE]

\* C25: when the 5 s timer of a connection attempt fires and the socket of that
\* attempt is still connecting, the socket is closed and a reconnect is scheduled
\* for the market.
C25_TimeoutClosesAndSchedules ==
  [][\A m \in Markets :
       (ev'.op = "timeout" /\ ev'.market = m /\ adapter.ws[m] = "CONNECTING") =>
         /\ adapter'.ws[m] = "CLOSING"
         /\ adapter'.reconnectTimers[m] = adapter.reconnectTimers[m] + 1
    ]_vars

\* the transitions the interface allows between the statuses of a session
StatusTransitions ==
  {<<"initial", "connecting">>, <<"connecting", "connected">>, <<"connecting", "error">>,
   <<"connected", "disconnected">>, <<"connected", "error">>,
   <<"disconnected", "connecting">>}

\* one handler emits at most two statuses: from a to b by no, one or two allowed
\* transitions
StatusPath(a, b) ==
  \/ a = b
  \/ <<a, b>> \in StatusTransitions
  \/ \E x \in {"connecting", "connected", "disconnected", "error"} :
       <<a, x>> \in StatusTransitions /\ <<x, b>> \in StatusTransitions

\* C26: the statuses an adapter emits for a market follow the allowed transitions
\* only: initial to connecting, connecting to connected or error, connected to
\* disconnected or error, disconnected to connecting.
C26_StatusTransitionsAllowed ==
  [][\A m \in Markets : StatusPath(adapter.status[m], adapter'.status[m])]_vars

\* C27: right after the open of a socket of a market the attempt counter of that
\* market is zero and the counter of the other market is what it was.
C27_OpenResetsCounter ==
  [][\A m \in Markets :
       (ev'.op \in {"open", "openReplaced"} /\ ev'.market = m) =>
         /\ adapter'.reconnectAttempts[m] = 0
         /\ \A other \in Markets \ {m} :
              adapter'.reconnectAttempts[other] = adapter.reconnectAttempts[other]
    ]_vars

\* C27 witness: a socket has just opened for a market that still has a reconnect
\* timer pending, so its counter had been raised, and the counter is zero while
\* the other market's counter is not
C27_Witness ==
  /\ ev.op = "open"
  /\ adapter.reconnectAttempts[ev.market] = 0
  /\ adapter.reconnectTimers[ev.market] > 0
  /\ \E other \in Markets \ {ev.market} : adapter.reconnectAttempts[other] > 0

\* C28: at most one reconnect timer is pending for a market at any time, and
\* none is pending right after reconnect or disconnect was called for the market.
C28_OneReconnectTimer ==
  [][\A m \in Markets :
       /\ adapter'.reconnectTimers[m] <= 1
       /\ (ev'.op \in {"reconnect", "disconnect"} /\ ev'.market = m) =>
            adapter'.reconnectTimers[m] = 0
    ]_vars

\* C29: no updatePrice runs while a notification is under way, so an updatePrice
\* a callback issues is not executed inside the callback, and every subscriber
\* receives the opportunity sets in the order in which they were computed.
C29_NoReentrantUpdate ==
  [][last'.op = "updatePrice" =>
       /\ last'.arg = 0
       /\ \A i \in 1..Len(last'.calls) : \A j \in i..Len(last'.calls) :
            last'.calls[i].subscriber = last'.calls[j].subscriber =>
              last'.calls[i].round <= last'.calls[j].round
    ]_vars

\* C30: the computation of an updatePrice for t uses as minimum spread the value x
\* of the last setThreshold(t, x), x = 0 included, and 1 while none was called:
\* no computed opportunity has a spread below it, and the set is not empty when
\* the spread between the lowest and the highest sample reaches it.
C30_ThresholdUsedAsSet ==
  last.op = "updatePrice" =>
    LET priceArray == MapValues(prices[last.ticker])
        x == ThresholdOf(last.ticker)
    IN /\ \A i \in 1..Len(last.computed) : last.computed[i].spread >= x
       /\ (/\ Len(priceArray) >= 2
           /\ calculateSpread(MinPrice(priceArray, 2, priceArray[1]).price,
                              MaxPrice(priceArray, 2, priceArray[1]).price) >= x)
          => Len(last.computed) > 0

\* C31: a poll one of whose RPC reads failed (a getPair lookup included) performs
\* no updatePrice, so the samples stored stay as they were, and the interval of
\* its chain keeps running.  (DEXPriceFetcher declares no field that counts
\* failures, lines 73-77, so the counter of the claim has nothing to be read from.)
C31_FailedReadSkipsSample ==
  [][(/\ Len(fetcher'.polls) < Len(fetcher.polls)
      /\ fetcher'.event.failed > 0)
       => /\ fetcher'.event.op = "failed"
          /\ prices' = prices
          /\ fetcher'.intervals = fetcher.intervals
    ]_vars

\* C32: getWETHPrice answers from the cache only a request on the chain the cached
\* price was read from and only while the entry is younger than the cache
\* duration; a request it does not answer from the cache finds no such entry and
\* reads the pool.
C32_CachePerChainWithTtl ==
  LET fresh == /\ fetcher.wethPriceCache # <<>>
               /\ fetcher.wethPriceCache[1].chain = fetcher.event.chain
               /\ fetcher.now - fetcher.wethPriceCache[1].timestamp < WETH_CACHE_DURATION
  IN /\ fetcher.event.cache = "hit" => fresh
     /\ fetcher.event.cache = "miss" => ~fresh

C34_TickersIndependent ==
  [][/\ \A t \in TickerNames :
          (/\ ev'.op \in {"startMonitoring", "stopMonitoring"}
           /\ ev'.ticker # t)
          => /\ \A m \in Markets :
                  (adapter.openedFor[m] = t /\ adapter.ws[m] \in {"CONNECTING", "OPEN"})
                    => /\ adapter'.ws[m] = adapter.ws[m]
                       /\ adapter'.openedFor[m] = t
                       /\ adapter'.replaced[m] = adapter.replaced[m]
             /\ \A i \in 1..Len(activeConnections) :
                  activeConnections[i][1][1] = t
                    => /\ MapHas(activeConnections', activeConnections[i][1])
                       /\ MapGet(activeConnections', activeConnections[i][1]).status
                            = activeConnections[i][2].status
     /\ ev'.op = "frame" => last'.ticker = adapter.openedFor[ev'.market]
    ]_vars

\* C35: when a socket of a market opens, closes or reports an error, the status
\* its session emits is what the manager then holds under the key of the ticker,
\* the venue and that market, and the record under the key of the other market
\* is left as it was.
C35_StatusUnderOwnKey ==
  [][\A m \in Markets :
       (/\ ev'.op \in {"open", "close", "closeClean", "error"}
        /\ ev'.market = m
        /\ MapHas(activeConnections, ConnectionKey(ev'.ticker, Venue, m)))
       => /\ MapHas(activeConnections', ConnectionKey(ev'.ticker, Venue, m))
          /\ MapGet(activeConnections', ConnectionKey(ev'.ticker, Venue, m)).status
               = StatusRecord(ExchangeKey(m), ev'.ticker, m, adapter'.status[m])
          /\ \A other \in Markets \ {m} :
               MapHas(activeConnections, ConnectionKey(ev'.ticker, Venue, other))
                 => /\ MapHas(activeConnections', ConnectionKey(ev'.ticker, Venue, other))
                    /\ MapGet(activeConnections', ConnectionKey(ev'.ticker, Venue, other))
                         = MapGet(activeConnections, ConnectionKey(ev'.ticker, Venue, other))
    ]_vars

\* C36: the close of a socket that a newer socket of the market has replaced
\* leaves the status reported for the market, the pending reconnect timers and
\* the attempt counter as they were; so a referenced socket that is open with
\* the status "connected" keeps that status over such a close.
C36_ReplacedSocketEventsIgnored ==
  [][\A m \in Markets :
       (ev'.op \in {"closeReplaced", "closeCleanReplaced"} /\ ev'.market = m)
       => /\ adapter'.status[m] = adapter.status[m]
          /\ adapter'.reconnectTimers[m] = adapter.reconnectTimers[m]
          /\ adapter'.reconnectAttempts[m] = adapter.reconnectAttempts[m]
    ]_vars

\* C37: the 5 s timer of an earlier connection attempt of a market, firing while
\* the timer of the current attempt is still pending, leaves the socket of the
\* current attempt as it is and reports nothing for it.
C37_TimeoutClosesOwnSocketOnly ==
  [][\A m \in Markets :
       (/\ ev'.op = "timeoutEarlier"
        /\ ev'.market = m
        /\ adapter.connectTimers[m].cur > 0)
       => /\ adapter'.ws[m] = adapter.ws[m]
          /\ adapter'.status[m] = adapter.status[m]
    ]_vars

\* C38: the first element of a non-empty set an updatePrice computes buys at the
\* lowest and sells at the highest price stored for the ticker, from samples the
\* store holds, and no element of the set has a greater spread; the spread
\* hasSignificantChange reads is therefore the greatest of the set.
C38_TopIsExtremePair ==
  (last.op = "updatePrice" /\ Len(last.computed) > 0) =>
    LET priceArray == MapValues(prices[last.ticker])
        top == last.computed[1]
    IN /\ SamplesOf(last.ticker, top)
       /\ \A i \in 1..Len(priceArray) :
            /\ top.buyFrom.price <= priceArray[i].price
            /\ top.sellTo.price >= priceArray[i].price
       /\ \A i \in 1..Len(last.computed) : last.computed[i].spread <= top.spread
       /\ HighestSpread(last.computed) = top.spread

\* C38 witness: a set of three opportunities whose second has a smaller profit
\* and a smaller spread than the first, the first being the pair of the extremes
C38_Witness ==
  /\ last.op = "updatePrice"
  /\ Len(last.computed) = 3
  /\ last.computed[2].profit < last.computed[1].profit
  /\ last.computed[2].spread < last.computed[1].spread
  /\ last.computed[1].buyFrom.price = MinPrice(MapValues(prices[last.ticker]), 1,
                                               MapValues(prices[last.ticker])[1]).price
  /\ last.computed[1].sellTo.price = MaxPrice(MapValues(prices[last.ticker]), 1,
                                              MapValues(prices[last.ticker])[1]).price

\* C39: every sample a frame of an adapter hands to updatePrice has a price
\* above 0, and no updatePrice leaves a ticker with two or more samples one of
\* which has the price 0, so calculateSpread never divides by zero.
C39_NoZeroPrice ==
  [][/\ ev'.op = "frame" => last'.price > 0
     /\ (last'.op = "updatePrice" /\ Len(prices'[last'.ticker]) >= 2)
          => \A i \in 1..Len(prices'[last'.ticker]) : prices'[last'.ticker][i][2].price # 0
    ]_vars

\* C40: at most one poll of a chain's loop is in flight at a time, and a poll
\* that stores its sample is never older than the poll whose sample it replaces.
C40_OnePollInFlight ==
  [][\A chain \in Chains :
       /\ Cardinality({i \in 1..Len(fetcher'.polls) : fetcher'.polls[i].chain = chain}) <= 1
       /\ fetcher'.stored[chain] >= fetcher.stored[chain] ]_vars

====
